---- MODULE Spec2Model ----
(***************************************************************************)
(* Model of the disaster-response agent kernel (lab3/fsm_agent.py) and of  *)
(* the FIPA-ACL messaging layer built on it (lab4).                        *)
(*                                                                         *)
(* Spec     : one FSMAgent with a registered transition table, fed by      *)
(*            receive_event and drained by process_events.                 *)
(* SpecMsg  : a coordinator and its field agents under the tick driver of  *)
(*            lab4_main (route_messages, then update on every agent), with *)
(*            the application calling the agents between two ticks.        *)
(* SpecBase : two plain CommunicatingAgents (no handler override) under    *)
(*            the same driver, sent messages of every validity.            *)
(* SpecRescue : one RescueAgent (lab3/rescue_agent.py), fed by             *)
(*            receive_event and stepped by update.                         *)
(* SpecTrace : SpecRescue with the agent's execution_trace recorded.        *)
(* SpecGoal : the goals of one agent, on which complete and fail are       *)
(*            called at any time.                                          *)
(* SpecPair : two FieldAgents, each handed requests and events and updated *)
(*            as a whole, in any order.                                    *)
(* SpecField : one FieldAgent handed requests and events, its update()     *)
(*            stepped through process_messages and process_events.         *)
(* SpecCoord : the coordinator, assessing and dispatching, with two field  *)
(*            agents, under whole ticks of the driver.                     *)
(* SpecMedical : one MedicalAgent (lab3/medical_agent.py), fed by          *)
(*            receive_event and stepped by update.                         *)
(* SpecDrain : SpecMsg with the loops of update() running to their end.    *)
(***************************************************************************)
EXTENDS Integers, Sequences, FiniteSets, TLC

VARIABLES
    fsm,          \* the FSMAgent: current_state, event_queue, state_history, goals
    transitions,  \* FSMAgent.transitions, in registration order
    pc,           \* where the caller of the agent is: idle / drain / returned / raised
    arrivals,     \* every event handed to receive_event of the agent of Spec or of
                  \* SpecRescue, in arrival order
    reacts,       \* per event popped by the process_events call in progress (or the
                  \* last one): the event, the state it met, the rule it fired
    entered       \* the agent as it was when its update() in progress (or the last
                  \* one) was called; None while update() was never called

VARIABLES
    agents,       \* agent_id -> the agent object (coordinator, field agents)
    clock,        \* what datetime.now() returns
    phase,        \* where the driver is: between ticks, inside dispatch_field_agents,
                  \* or inside update() of the i-th agent
    handled,      \* per message popped by the process_messages call in progress (or
                  \* the last one): the agent, the message, how the handling ended
    used,         \* how many calls the application and the driver made so far
    call          \* the send_message call the application has just made on a plain
                  \* agent (the agent and the message), or the complete / fail call
                  \* just made on a goal; none after any other step

kvars == <<fsm, transitions, pc, arrivals, reacts, entered>>
mvars == <<agents, clock, phase, handled, used, call>>
vars == <<fsm, transitions, pc, arrivals, reacts, entered, agents, clock, phase, handled, used, call>>

-----------------------------------------------------------------------------
(* Bounds *)

\* Events handed to receive_event in one run.
MaxEvents == 3

\* Ticks of the driver loop (for step in range(...): route_messages; update all).
MaxTicks == 3

\* Readings of the clock: 0 .. MaxClock.
MaxClock == 1

\* Calls of send_message the application makes on the agents.
MaxAppSends == 1

\* Calls of dispatch_field_agents.
MaxDispatches == 1

\* Events the application hands to the agents of the messaging layer.
MaxAgentEvents == 1

\* Calls of send_message the application makes on the plain agents.
MaxBaseSends == 2

\* Calls of receive_message made while the receiver drains its inbox.
MaxDeliveries == 1

\* How many events the RescueAgent of SpecRescue is handed: a mission takes five.
MaxRescueEvents == 5

\* How many requests and events the two field agents of SpecPair are handed.
MaxPairRequests == 2
MaxPairEvents == 6

\* How many requests and events the field agent of SpecField is handed.
MaxFieldRequests == 2
MaxFieldEvents == 2

\* The calls made on the agents of SpecCoord: assess_situation and
\* dispatch_field_agents on the coordinator, receive_event on the field agents,
\* and the ticks of the driver.
MaxAssessments == 1
MaxCoordDispatches == 2
MaxCoordEvents == 4
MaxCoordTicks == 6

\* How many events the MedicalAgent of SpecMedical is handed, and how many wait
\* in its queue at a time: three missions treated on site take twelve.
MaxMedicalEvents == 12
MaxMedicalQueue == 2

-----------------------------------------------------------------------------
(* Events: lab3/fsm_agent.py Event, with the priorities event_system.py gives *)

EventKinds ==
    { [event_type |-> "FIRE_DETECTED", priority |-> 4],
      [event_type |-> "BUILDING_COLLAPSE", priority |-> 5] }

\* An Event object; seq is its identity (the position of its arrival).
Event(kind, n) ==
    [event_type |-> kind.event_type, priority |-> kind.priority, seq |-> n]

-----------------------------------------------------------------------------
(* Messages: lab4/fipa_acl.py *)

\* Python's None, for the optional values (ids, locations, the mission).
None == << >>

Performatives ==
    { "inform", "request", "query-if", "query-ref", "confirm", "disconfirm", "agree",
      "refuse", "propose", "accept-proposal", "reject-proposal", "cfp", "not-understood" }

\* A content value. kind says what the Python value is: "none" (None), "str" (a
\* value that is no dict; text is the value) or "dict". The other fields are the
\* keys of the dict the code reads or writes; "" or None: the key is absent.
\* parameters is "absent" (no such key), "dict" (a dict, whose location and
\* mission_type are the fields of those names) or "nondict" (None, a string).
EmptyDict ==
    [kind |-> "dict", text |-> "", action |-> "", parameters |-> "absent",
     location |-> None, mission_type |-> "", type |-> "", query |-> "",
     reason |-> None, original_message |-> None, status |-> "", discovery |-> "",
     severity |-> "", acknowledged |-> FALSE]

NoneContent == [EmptyDict EXCEPT !.kind = "none"]

TextContent(text) == [EmptyDict EXCEPT !.kind = "str", !.text = text]

DefaultLanguage == "python-dict"
DefaultOntology == "disaster-response"
DefaultProtocol == "fipa-request"

\* ACLMessage.__init__ at time now. The constructor reads the clock for the
\* conversation id, for the message id and for the timestamp; now is that reading.
\* conversation_id = conversation_id or generated: None stands for the falsy values.
ACLMessage(performative, sender, receiver, content, language, ontology, protocol, conversation_id, reply_to, in_reply_to, now) ==
    [performative |-> performative,
     sender |-> sender,
     receiver |-> receiver,
     content |-> content,
     language |-> language,
     ontology |-> ontology,
     protocol |-> protocol,
     conversation_id |-> IF conversation_id = None THEN <<"CONV", now>>
                         ELSE conversation_id,
     reply_to |-> reply_to,
     in_reply_to |-> in_reply_to,
     message_id |-> <<"MSG", sender, now>>,
     timestamp |-> now]

\* ACLMessage(performative=, sender=, receiver=, content=, conversation_id=): the
\* other parameters take their defaults.
NewMessage(performative, sender, receiver, content, conversation_id, now) ==
    ACLMessage(performative, sender, receiver, content, DefaultLanguage,
               DefaultOntology, DefaultProtocol, conversation_id, None, None, now)

\* Mutant: the reply starts a conversation of its own.
create_reply_NewConversation(m, performative, content, sender, now) ==
    ACLMessage(performative, sender, m.sender, content, m.language, m.ontology,
               m.protocol, None, None, m.message_id, now)

\* Mutant: in_reply_to names the reply itself.
create_reply_ToOwnMessage(m, performative, content, sender, now) ==
    ACLMessage(performative, sender, m.sender, content, m.language, m.ontology,
               m.protocol, m.conversation_id, None, <<"MSG", sender, now>>, now)

\* ACLMessage.create_reply
create_reply(m, performative, content, sender, now) ==
    ACLMessage(performative, sender, m.sender, content, m.language, m.ontology,
               m.protocol, m.conversation_id, None, m.message_id, now)

\* ACLMessage.validate: the error text, "" when the message is valid.
\* A performative of "" stands for None.
validate(m) ==
    IF m.sender = "" THEN "Sender is required"
    ELSE IF m.receiver = "" THEN "Receiver is required"
    ELSE IF m.performative = "" THEN "Performative is required"
    ELSE IF m.content.kind = "none" THEN "Content is required"
    ELSE IF /\ m.performative = "request"
            /\ (m.content.kind # "dict" \/ m.content.action = "")
         THEN "REQUEST performative requires content with 'action' field"
    ELSE ""

\* Performative.value of an enum member, and Performative(value), the member
\* with that value. A message holds the member; the dictionary holds the string.
PerformativeValue(p) == <<"str", p>>

PerformativeOf(value) == CHOOSE p \in Performatives : PerformativeValue(p) = value

\* datetime.isoformat() and datetime.fromisoformat()
isoformat(t) == <<"iso", t>>

fromisoformat(text) == text[2]

\* ACLMessage.to_dict
to_dict(m) ==
    [message_id |-> m.message_id,
     performative |-> PerformativeValue(m.performative),
     sender |-> m.sender,
     receiver |-> m.receiver,
     content |-> m.content,
     language |-> m.language,
     ontology |-> m.ontology,
     protocol |-> m.protocol,
     conversation_id |-> m.conversation_id,
     reply_to |-> m.reply_to,
     in_reply_to |-> m.in_reply_to,
     timestamp |-> isoformat(m.timestamp)]

\* The message from_dict constructs at time now, before it restores anything.
from_dict_constructed(data, now) ==
    ACLMessage(PerformativeOf(data.performative), data.sender, data.receiver,
               data.content, data.language, data.ontology, data.protocol,
               data.conversation_id, data.reply_to, data.in_reply_to, now)

\* Mutant: the message id and the timestamp of the new object are kept.
from_dict_FreshIdentity(data, now) == from_dict_constructed(data, now)

\* ACLMessage.from_dict, for a dictionary with all the keys to_dict writes
from_dict(data, now) ==
    [from_dict_constructed(data, now) EXCEPT
        !.message_id = data.message_id,
        !.timestamp = fromisoformat(data.timestamp)]

-----------------------------------------------------------------------------
(* Transition rules: lab3/fsm_agent.py Transition *)

States == {"IDLE", "RESPONDING", "COMPLETED"}

\* condition: what the guard callable does when called with (agent, event)
\*   always       lambda agent, event: True
\*   on_collapse  lambda agent, event: event.event_type == "BUILDING_COLLAPSE"
\*   raises       a guard whose evaluation raises
\* action: what the action callable does
\*   none           action=None
\*   activate_goal  sets the status of goal quick_response to active
\*   raises         an action whose execution raises
Conditions == {"always", "on_collapse", "raises"}
Actions == {"none", "activate_goal", "raises"}

Transition(from, to, condition, action) ==
    [from_state |-> from, to_state |-> to, condition |-> condition, action |-> action]

Rules ==
    { Transition(f, t, c, a) :
        f \in {"IDLE", "RESPONDING"}, t \in {"RESPONDING", "COMPLETED"},
        c \in Conditions, a \in Actions }

\* The transition tables an agent is configured with: one or two rules.
Tables == { <<r>> : r \in Rules } \cup { <<r1, r2>> : r1 \in Rules, r2 \in Rules }

\* The outcome of calling the guard with (agent, event): "true" (a truthy value),
\* "false" (a falsy value) or "raise". has_mission, at_target and
\* investigation_complete are the guards of FieldAgent; emergency_event, at_target,
\* rescued and at_base those of RescueAgent; medical_emergency, at_target,
\* treated_needs_evacuation, treated_on_site and at_base those of MedicalAgent.
condition_result(t, ag, event) ==
    CASE t.condition = "always" -> "true"
      [] t.condition = "on_collapse" ->
            IF event.event_type = "BUILDING_COLLAPSE" THEN "true" ELSE "false"
      [] t.condition = "raises" -> "raise"
      [] t.condition = "has_mission" ->
            IF ag.current_mission # None THEN "true" ELSE "false"
      [] t.condition = "at_target" ->
            IF ag.current_location = ag.target_location THEN "true" ELSE "false"
      [] t.condition = "investigation_complete" ->
            IF ag.current_mission # None /\ ag.current_mission[1].investigation_complete
            THEN "true" ELSE "false"
      [] t.condition = "emergency_event" ->
            IF event.event_type \in {"BUILDING_COLLAPSE", "MAJOR_EARTHQUAKE", "FIRE_DETECTED"}
            THEN "true" ELSE "false"
      [] t.condition = "rescued" ->
            IF ag.current_mission # None /\ ag.current_mission[1].rescued
            THEN "true" ELSE "false"
      [] t.condition = "at_base" ->
            IF ag.current_location = <<0, 0>> THEN "true" ELSE "false"
      [] t.condition = "medical_emergency" ->
            IF event.event_type = "MEDICAL_EMERGENCY" THEN "true" ELSE "false"
      [] t.condition = "treated_needs_evacuation" ->
            IF /\ ag.current_mission # None
               /\ ag.current_mission[1].treated
               /\ ag.current_mission[1].needs_evacuation
            THEN "true" ELSE "false"
      [] t.condition = "treated_on_site" ->
            IF /\ ag.current_mission # None
               /\ ag.current_mission[1].treated
               /\ ~ag.current_mission[1].needs_evacuation
            THEN "true" ELSE "false"

\* Mutant: an exception of the guard counts as a match.
can_transition_RaiseMatches(t, ag, event) ==
    condition_result(t, ag, event) \in {"true", "raise"}

\* Transition.can_transition: try: return condition(...) except: return False
can_transition(t, ag, event) ==
    IF condition_result(t, ag, event) = "raise" THEN FALSE
    ELSE condition_result(t, ag, event) = "true"

-----------------------------------------------------------------------------
(* Goals: lab3/fsm_agent.py AgentGoal *)

InitialGoals == << [goal_id |-> "quick_response", status |-> "pending"] >>

\* for goal in self.goals: if goal.goal_id == "quick_response": goal.status = "active"
ActivateGoal(goals, id) ==
    [i \in DOMAIN goals |->
        IF goals[i].goal_id = id THEN [goals[i] EXCEPT !.status = "active"] ELSE goals[i]]

\* What the action callables of the generic rules do to the agent.
kernel_action(t, ag) ==
    CASE t.action = "none" -> [agent |-> ag, raised |-> FALSE]
      [] t.action = "activate_goal" ->
            [agent |-> [ag EXCEPT !.goals = ActivateGoal(@, "quick_response")],
             raised |-> FALSE]
      [] t.action = "raises" -> [agent |-> ag, raised |-> TRUE]

-----------------------------------------------------------------------------
(* The kernel: lab3/fsm_agent.py FSMAgent *)

\* Mutant: the trace keeps its latest entry only.
log_trace_LatestOnly(ag, message) ==
    IF "execution_trace" \in DOMAIN ag
    THEN [ag EXCEPT !.execution_trace = <<message>>]
    ELSE ag

\* FSMAgent._log_trace: execution_trace.append(...), with the message reduced to
\* its fixed text. The trace is recorded for the agents constructed with the
\* field execution_trace (NewTracedRescueAgent) and left out for the others.
log_trace(ag, message) ==
    IF "execution_trace" \in DOMAIN ag
    THEN [ag EXCEPT !.execution_trace = Append(@, message)]
    ELSE ag

\* FSMAgent.__init__
NewAgent(initial_state) ==
    [current_state |-> initial_state,
     event_queue |-> << >>,
     state_history |-> << [state |-> initial_state, reason |-> <<"initialized">>] >>,
     goals |-> InitialGoals]

\* Mutant: an unstable sort, which puts e before the elements of its priority.
RECURSIVE InsertUnstable(_, _)
InsertUnstable(q, e) ==
    IF q = << >> THEN <<e>>
    ELSE IF Head(q).priority > e.priority THEN <<Head(q)>> \o InsertUnstable(Tail(q), e)
    ELSE <<e>> \o q

\* Insert e into a list sorted by priority descending, after every element whose
\* priority is not lower: the place a stable sort gives to the last element.
RECURSIVE InsertStable(_, _)
InsertStable(q, e) ==
    IF q = << >> THEN <<e>>
    ELSE IF Head(q).priority >= e.priority THEN <<Head(q)>> \o InsertStable(Tail(q), e)
    ELSE <<e>> \o q

\* list.sort(key=lambda e: e.priority, reverse=True): a stable sort, built by
\* inserting the elements in list order.
RECURSIVE SortByPriority(_)
SortByPriority(q) ==
    IF q = << >> THEN << >>
    ELSE InsertStable(SortByPriority(SubSeq(q, 1, Len(q) - 1)), q[Len(q)])

\* Mutant: the event is appended and the queue is not re-sorted.
receive_event_Unsorted(ag, event) ==
    [ag EXCEPT !.event_queue = Append(@, event)]

\* FSMAgent.receive_event: append, then sort
receive_event(ag, event) ==
    log_trace([ag EXCEPT !.event_queue = SortByPriority(Append(@, event))],
              "Event received")

-----------------------------------------------------------------------------
(* The communicating agent: lab4/communicating_agent.py *)

\* CommunicatingAgent.__init__ on top of FSMAgent.__init__; class is the Python
\* class of the agent: "base" (CommunicatingAgent), "field" or "coordinator".
NewCommunicatingAgent(agent_id, class, initial_state) ==
    [agent_id |-> agent_id, class |-> class,
     inbox |-> << >>, outbox |-> << >>, message_history |-> << >>]
    @@ [NewAgent(initial_state) EXCEPT !.goals = << >>]

\* CommunicatingAgent._register_default_handlers, and the handlers FieldAgent and
\* CoordinatorAgent register over them: every class handles the same performatives.
HandledPerformatives == {"inform", "request", "query-if", "confirm", "refuse"}

\* Mutant: an invalid message is sent all the same.
send_message_Unchecked(ag, m) ==
    [ag EXCEPT !.outbox = Append(@, m), !.message_history = Append(@, m)]

\* CommunicatingAgent.send_message
send_message(ag, m) ==
    IF validate(m) # "" THEN ag
    ELSE [ag EXCEPT !.outbox = Append(@, m), !.message_history = Append(@, m)]

\* Mutant: the received message goes to the front of the inbox.
receive_message_Prepend(ag, m) ==
    [ag EXCEPT !.inbox = <<m>> \o @, !.message_history = Append(@, m)]

\* CommunicatingAgent.receive_message
receive_message(ag, m) ==
    [ag EXCEPT !.inbox = Append(@, m), !.message_history = Append(@, m)]

\* The content of the not-understood reply: {"reason": ..., "original_message": id}
NotUnderstoodContent(reason, m) ==
    [EmptyDict EXCEPT !.reason = reason, !.original_message = m.message_id]

\* CommunicatingAgent._send_not_understood
send_not_understood(ag, m, reason, now) ==
    send_message(ag, create_reply(m, "not-understood", NotUnderstoodContent(reason, m),
                                  ag.agent_id, now))

\* A handler that returned, leaving the agent as ag.
Returned(ag) == [agent |-> ag, raised |-> FALSE, error |-> None]

\* A handler that raised error, leaving the agent as ag.
Raised(ag, error) == [agent |-> ag, raised |-> TRUE, error |-> error]

\* ag sends the reply to m with this performative and content.
Reply(ag, m, performative, content, now) ==
    send_message(ag, create_reply(m, performative, content, ag.agent_id, now))

\* Mutant: the default request handler only writes its trace entry.
handle_request_TraceOnly(ag, m, now) == Returned(ag)

\* CommunicatingAgent._handle_request: the default, which refuses.
handle_request(ag, m, now) ==
    LET action == IF m.content.kind = "dict" THEN m.content.action ELSE m.content.text IN
    Returned(Reply(ag, m, "refuse",
                   [EmptyDict EXCEPT !.reason = <<"Action not supported">>,
                                     !.action = action], now))

-----------------------------------------------------------------------------
(* The field agent's message handlers: lab4/field_agent.py *)

\* FieldAgent.__init__ and set_coordinator(coordinator_id), as lab4_main sets it up
NewFieldAgent(agent_id, coordinator_id) ==
    [current_location |-> <<0, 0>>, target_location |-> None,
     current_mission |-> None, coordinator_id |-> coordinator_id,
     discoveries |-> << >>]
    @@ NewCommunicatingAgent(agent_id, "field", "IDLE")

\* parameters.get("location"), for parameters that is a dict
ParameterLocation(content) ==
    IF content.parameters = "dict" THEN content.location ELSE None

\* What str(e) is when .get is called on parameters that is no dict.
AttributeError == <<"AttributeError: object has no attribute 'get'">>

\* FieldAgent._accept_investigation_mission when the agent has no mission: the
\* mission dict is built (parameters.get raises on parameters that is no dict,
\* before anything is assigned), then the agree reply is sent. The priority entry
\* of the mission, which nothing reads, is left out.
take_investigation_mission(ag, m, now) ==
    IF m.content.parameters = "nondict" THEN Raised(ag, AttributeError)
    ELSE LET accepted ==
               [ag EXCEPT
                  !.current_mission =
                      << [action |-> "investigate_location",
                          location |-> ParameterLocation(m.content),
                          type |-> m.content.mission_type,
                          investigation_complete |-> FALSE,
                          conversation_id |-> m.conversation_id] >>,
                  !.target_location = ParameterLocation(m.content),
                  !.coordinator_id = m.sender]
         IN Returned(Reply(accepted, m, "agree",
                [EmptyDict EXCEPT !.action = "investigate_location",
                                  !.location = ParameterLocation(m.content)], now))

\* Mutant: a new mission is taken whether or not the agent is on one.
accept_investigation_mission_Replaces(ag, m, now) == take_investigation_mission(ag, m, now)

\* FieldAgent._accept_investigation_mission
accept_investigation_mission(ag, m, now) ==
    IF ag.current_mission # None
    THEN Returned(Reply(ag, m, "refuse",
            [EmptyDict EXCEPT !.reason = <<"Already on active mission">>], now))
    ELSE take_investigation_mission(ag, m, now)

\* FieldAgent._accept_return_mission
accept_return_mission(ag, m, now) ==
    Returned(Reply([ag EXCEPT !.target_location = <<0, 0>>], m, "agree",
                   [EmptyDict EXCEPT !.action = "return_to_base"], now))

\* FieldAgent._accept_assist_mission
accept_assist_mission(ag, m, now) ==
    IF m.content.parameters = "nondict" THEN Raised(ag, AttributeError)
    ELSE Returned(Reply(ag, m, "agree",
                        [EmptyDict EXCEPT !.action = "assist_agent"], now))

\* FieldAgent._handle_coordinator_request
handle_coordinator_request(ag, m, now) ==
    IF m.content.kind # "dict"
    THEN Returned(Reply(ag, m, "refuse",
            [EmptyDict EXCEPT !.reason = <<"Invalid request format">>], now))
    ELSE IF m.content.action = "investigate_location"
         THEN accept_investigation_mission(ag, m, now)
    ELSE IF m.content.action = "return_to_base" THEN accept_return_mission(ag, m, now)
    ELSE IF m.content.action = "assist_agent" THEN accept_assist_mission(ag, m, now)
    ELSE Returned(Reply(ag, m, "refuse",
            [EmptyDict EXCEPT !.reason = <<"Unknown action", m.content.action>>], now))

\* FieldAgent._handle_query
handle_query(ag, m, now) ==
    LET query == IF m.content.kind = "dict" THEN m.content.query ELSE m.content.text IN
    IF query = "mission_status"
    THEN Returned(Reply(ag, m, "inform",
            [EmptyDict EXCEPT
                !.type = "status_update",
                !.status = ag.current_state,
                !.location = ag.current_location,
                !.mission_type = IF ag.current_mission # None
                                 THEN ag.current_mission[1].type ELSE ""], now))
    ELSE Returned(ag)

-----------------------------------------------------------------------------
(* The coordinator: lab4/coordinator_agent.py *)

\* CoordinatorAgent.__init__ and register_field_agent for each field agent
NewCoordinatorAgent(agent_id, field_agents) ==
    [field_agents |-> field_agents,
     active_missions |-> [a \in {} |-> None],
     situation_reports |-> << >>]
    @@ NewCommunicatingAgent(agent_id, "coordinator", "IDLE")

\* del d[key], for a key of d
Delete(d, key) == [k \in DOMAIN d \ {key} |-> d[k]]

\* CoordinatorAgent._process_discovery_report
process_discovery_report(ag, m, now) ==
    Returned(Reply(ag, m, "confirm",
                   [EmptyDict EXCEPT !.acknowledged = TRUE,
                                     !.discovery = m.content.discovery], now))

\* CoordinatorAgent._process_status_update
process_status_update(ag, m) ==
    IF m.sender \in DOMAIN ag.active_missions
    THEN Returned([ag EXCEPT !.active_missions[m.sender].status = m.content.status])
    ELSE Returned(ag)

\* CoordinatorAgent._process_mission_completion
process_mission_completion(ag, m) ==
    LET left == IF m.sender \in DOMAIN ag.active_missions
                THEN Delete(ag.active_missions, m.sender) ELSE ag.active_missions
    IN Returned([ag EXCEPT
                   !.active_missions = left,
                   !.current_state = IF DOMAIN left = {} THEN "COMPLETED" ELSE @])

\* CoordinatorAgent._process_emergency_report
process_emergency_report(ag, m, now) ==
    Returned(Reply(ag, m, "confirm", [EmptyDict EXCEPT !.acknowledged = TRUE], now))

\* CoordinatorAgent._handle_field_inform
handle_field_inform(ag, m, now) ==
    IF m.content.kind # "dict" THEN Returned(ag)
    ELSE IF m.content.type = "discovery" THEN process_discovery_report(ag, m, now)
    ELSE IF m.content.type = "status_update" THEN process_status_update(ag, m)
    ELSE IF m.content.type = "mission_complete" THEN process_mission_completion(ag, m)
    ELSE IF m.content.type = "emergency" THEN process_emergency_report(ag, m, now)
    ELSE Returned(ag)

\* CoordinatorAgent._handle_refusal
handle_refusal(ag, m) ==
    IF m.sender \in DOMAIN ag.active_missions
    THEN Returned([ag EXCEPT !.active_missions = Delete(@, m.sender)])
    ELSE Returned(ag)

-----------------------------------------------------------------------------
(* Dispatch of an inbox message: lab4/communicating_agent.py *)

\* The handler registered for the performative of m, applied to m. The handlers
\* that only write a trace entry return the agent as it is.
handler(ag, m, now) ==
    IF m.performative = "request" THEN
        IF ag.class = "field" THEN handle_coordinator_request(ag, m, now)
        ELSE handle_request(ag, m, now)
    ELSE IF m.performative = "query-if" THEN
        IF ag.class = "field" THEN handle_query(ag, m, now) ELSE Returned(ag)
    ELSE IF m.performative = "inform" THEN
        IF ag.class = "coordinator" THEN handle_field_inform(ag, m, now) ELSE Returned(ag)
    ELSE IF m.performative = "refuse" THEN
        IF ag.class = "coordinator" THEN handle_refusal(ag, m) ELSE Returned(ag)
    ELSE Returned(ag)

\* Mutant: a message without a handler is dropped without a reply.
process_message_NoFallback(ag, m, now) ==
    IF m.performative \in HandledPerformatives
    THEN LET r == handler(ag, m, now) IN
         IF r.raised THEN send_not_understood(r.agent, m, r.error, now) ELSE r.agent
    ELSE ag

\* Mutant: the exception of a handler is caught and nothing is sent.
process_message_SilentFailure(ag, m, now) ==
    IF m.performative \in HandledPerformatives
    THEN handler(ag, m, now).agent
    ELSE send_not_understood(ag, m, <<"No handler for", m.performative>>, now)

\* CommunicatingAgent._process_message
process_message(ag, m, now) ==
    IF m.performative \in HandledPerformatives
    THEN LET r == handler(ag, m, now) IN
         IF r.raised THEN send_not_understood(r.agent, m, r.error, now) ELSE r.agent
    ELSE send_not_understood(ag, m, <<"No handler for", m.performative>>, now)

-----------------------------------------------------------------------------
(* The field agent's state machine: lab4/field_agent.py *)

\* FieldAgent._define_transitions
FieldTransitions ==
    << Transition("IDLE", "TRAVELING", "has_mission", "none"),
       Transition("TRAVELING", "INVESTIGATING", "at_target", "start_investigation"),
       Transition("INVESTIGATING", "REPORTING", "investigation_complete",
                  "send_investigation_report"),
       Transition("REPORTING", "COMPLETED", "always", "complete_mission"),
       Transition("COMPLETED", "IDLE", "always", "reset_for_next_mission") >>

\* The findings random.choice draws from, one of each severity.
Findings == {"No survivors found, area secure", "Gas leak detected, evacuating area"}

\* "critical" if the findings name a critical case, an emergency or a leak
Severity(finding) ==
    IF finding = "Gas leak detected, evacuating area" THEN "critical" ELSE "normal"

\* self.current_mission.get("conversation_id"), None without a mission
MissionConversation(ag) ==
    IF ag.current_mission # None THEN ag.current_mission[1].conversation_id ELSE None

\* FieldAgent._send_investigation_report; env.finding is what random.choice drew
send_investigation_report(ag, env) ==
    IF ag.coordinator_id = "" THEN ag
    ELSE send_message(
            [ag EXCEPT !.discoveries = Append(@, env.finding)],
            NewMessage("inform", ag.agent_id, ag.coordinator_id,
                       [EmptyDict EXCEPT !.type = "discovery",
                                         !.discovery = env.finding,
                                         !.location = ag.current_location,
                                         !.severity = Severity(env.finding)],
                       MissionConversation(ag), env.now))

\* FieldAgent._complete_mission (the result and discoveries entries of the
\* content, which no handler reads, are left out)
complete_mission(ag, env) ==
    IF ag.coordinator_id = "" THEN ag
    ELSE send_message(ag,
            NewMessage("inform", ag.agent_id, ag.coordinator_id,
                       [EmptyDict EXCEPT !.type = "mission_complete"],
                       MissionConversation(ag), env.now))

\* FieldAgent._reset_for_next_mission
reset_for_next_mission(ag) ==
    [ag EXCEPT !.current_mission = None, !.target_location = None]

\* One step of x toward tx: x + (1 if tx > x else -1 if tx < x else 0)
StepToward(x, tx) == x + (IF tx > x THEN 1 ELSE IF tx < x THEN -1 ELSE 0)

\* FieldAgent._move_toward_target
move_toward_target(ag) ==
    IF ag.target_location # None /\ ag.current_location # ag.target_location
    THEN log_trace([ag EXCEPT !.current_location =
                        << StepToward(@[1], ag.target_location[1]),
                           StepToward(@[2], ag.target_location[2]) >>],
                   "Moving to target")
    ELSE ag

\* FieldAgent._perform_investigation
perform_investigation(ag) ==
    IF ag.current_mission # None /\ ~ag.current_mission[1].investigation_complete
    THEN [ag EXCEPT !.current_mission[1].investigation_complete = TRUE]
    ELSE ag

\* The part of update() that comes before process_messages and process_events:
\* the simulation step of FieldAgent.update, nothing for the other classes.
simulation_step(ag) ==
    IF ag.class # "field" THEN ag
    ELSE IF ag.current_state = "TRAVELING" /\ ag.target_location # None
         THEN move_toward_target(ag)
    ELSE IF ag.current_state = "INVESTIGATING" /\ ag.current_mission # None
         THEN perform_investigation(ag)
    ELSE ag

-----------------------------------------------------------------------------
(* The rescue agent: lab3/rescue_agent.py *)

\* The events handed to a RescueAgent: an emergency and one that is none.
RescueEventKinds ==
    { [event_type |-> "BUILDING_COLLAPSE", priority |-> 5],
      [event_type |-> "STRUCTURAL_DAMAGE", priority |-> 3] }

\* The places an event's data names as its location.
RescueLocations == { <<1, 1>>, <<2, 0>> }

\* An Event whose data holds a location (and no victim count).
RescueEvent(kind, n, location) ==
    [event_type |-> kind.event_type, priority |-> kind.priority, seq |-> n,
     location |-> location]

\* RescueAgent._define_goals
RescueGoals ==
    << [goal_id |-> "quick_response", status |-> "pending"],
       [goal_id |-> "rescue_trapped", status |-> "pending"],
       [goal_id |-> "transport_victims", status |-> "pending"] >>

\* RescueAgent.__init__
NewRescueAgent ==
    [current_state |-> "IDLE",
     event_queue |-> << >>,
     state_history |-> << [state |-> "IDLE", reason |-> <<"initialized">>] >>,
     goals |-> RescueGoals,
     agent_id |-> "R001",
     name |-> "Rescue Unit Alpha",
     current_location |-> <<0, 0>>,
     target_location |-> None,
     rescued_count |-> 0,
     current_mission |-> None]

\* RescueAgent.__init__ with the execution_trace it leaves: the entry of
\* FSMAgent.__init__ and one entry of add_goal per goal.
NewTracedRescueAgent ==
    [execution_trace |->
        << "Agent initialized", "Goal added", "Goal added", "Goal added" >>]
    @@ NewRescueAgent

\* RescueAgent._define_transitions
RescueTransitions ==
    << Transition("IDLE", "RESPONDING", "emergency_event", "RescueAgent._start_response"),
       Transition("RESPONDING", "RESCUING", "at_target", "RescueAgent._start_rescue"),
       Transition("RESCUING", "TRANSPORTING", "rescued", "RescueAgent._start_transport"),
       Transition("TRANSPORTING", "COMPLETED", "at_base", "RescueAgent._complete_mission"),
       Transition("COMPLETED", "IDLE", "always", "RescueAgent._reset_for_next_mission") >>

\* goal.complete() on the goals at the positions of which
CompleteGoals(goals, which) ==
    [i \in DOMAIN goals |->
        IF i \in which THEN [goals[i] EXCEPT !.status = "completed"] ELSE goals[i]]

\* RescueAgent._start_response; the event's data names no victim count, so the
\* mission's is the default 1.
start_response(ag, event) ==
    log_trace(
        [ag EXCEPT
            !.target_location = event.location,
            !.current_mission =
                << [event_type |-> event.event_type, location |-> event.location,
                    rescued |-> FALSE, victim_count |-> 1] >>,
            !.goals = ActivateGoal(@, "quick_response")],
        "Responding")

\* RescueAgent._start_rescue
start_rescue(ag) ==
    log_trace(log_trace([ag EXCEPT !.goals = ActivateGoal(@, "rescue_trapped")],
                        "Starting rescue operation"),
              "Attempting to rescue")

\* RescueAgent._start_transport
start_transport(ag) ==
    LET rescue == { i \in DOMAIN ag.goals : ag.goals[i].goal_id = "rescue_trapped" } IN
    log_trace(
        [ag EXCEPT !.goals = ActivateGoal(CompleteGoals(@, rescue), "transport_victims")],
        "Transporting")

\* RescueAgent._complete_mission
rescue_complete_mission(ag) ==
    LET active == { i \in DOMAIN ag.goals : ag.goals[i].status = "active" } IN
    log_trace(
        [ag EXCEPT
            !.rescued_count = @ + ag.current_mission[1].victim_count,
            !.goals = CompleteGoals(@, active)],
        "Mission completed")

\* Mutant: the reset also forgets how many victims were rescued.
rescue_reset_for_next_mission_ClearsCount(ag) ==
    [ag EXCEPT !.current_mission = None, !.target_location = None, !.rescued_count = 0]

\* Mutant: the reset forgets the target and keeps the mission.
rescue_reset_for_next_mission_KeepsMission(ag) ==
    log_trace([ag EXCEPT !.target_location = None], "Agent ready for next mission")

\* RescueAgent._reset_for_next_mission
rescue_reset_for_next_mission(ag) ==
    log_trace([ag EXCEPT !.current_mission = None, !.target_location = None],
              "Agent ready for next mission")

\* What the action callables of RescueTransitions do to the agent.
rescue_action(t, ag, event) ==
    CASE t.action = "RescueAgent._start_response" -> start_response(ag, event)
      [] t.action = "RescueAgent._start_rescue" -> start_rescue(ag)
      [] t.action = "RescueAgent._start_transport" -> start_transport(ag)
      [] t.action = "RescueAgent._complete_mission" -> rescue_complete_mission(ag)
      [] t.action = "RescueAgent._reset_for_next_mission" ->
            rescue_reset_for_next_mission(ag)

RescueActions == { RescueTransitions[i].action : i \in DOMAIN RescueTransitions }

\* Mutant: the simulated rescue also completes the rescue goal.
perform_rescue_CompletesGoal(ag) ==
    IF ag.current_mission # None /\ ~ag.current_mission[1].rescued
    THEN [ag EXCEPT !.current_mission[1].rescued = TRUE,
                    !.goals = CompleteGoals(@, DOMAIN @)]
    ELSE ag

\* RescueAgent._perform_rescue
perform_rescue(ag) ==
    IF ag.current_mission # None /\ ~ag.current_mission[1].rescued
    THEN log_trace([ag EXCEPT !.current_mission[1].rescued = TRUE],
                   "Rescue operation successful")
    ELSE ag

\* RescueAgent._move_to_base
move_to_base(ag) ==
    IF ag.current_location # <<0, 0>>
    THEN log_trace(
            [ag EXCEPT !.current_location = << StepToward(@[1], 0), StepToward(@[2], 0) >>],
            "Returning to base")
    ELSE ag

\* Mutant: update() takes no simulation step before it processes the events.
rescue_simulation_step_Skipped(ag) == ag

\* The part of RescueAgent.update that comes before super().update(): the
\* simulation step the state calls for. _move_toward_target has the text of
\* FieldAgent's.
rescue_simulation_step(ag) ==
    IF ag.current_state = "RESPONDING" /\ ag.target_location # None
    THEN move_toward_target(ag)
    ELSE IF ag.current_state = "RESCUING" /\ ag.current_mission # None
    THEN perform_rescue(ag)
    ELSE IF ag.current_state = "TRANSPORTING" THEN move_to_base(ag)
    ELSE ag

-----------------------------------------------------------------------------
(* The medical agent: lab3/medical_agent.py *)

\* An Event whose data holds a location, a severity and whether the patients
\* need evacuation (and no injured count).
MedicalEvent(kind, n, location) ==
    [event_type |-> kind.event_type, priority |-> kind.priority, seq |-> n,
     location |-> location, severity |-> kind.severity,
     needs_evacuation |-> kind.needs_evacuation]

\* The events handed to a MedicalAgent: a critical emergency treated on site and
\* a light one whose patients need evacuation.
MedicalEventKinds ==
    { [event_type |-> "MEDICAL_EMERGENCY", priority |-> 5, severity |-> "critical",
       needs_evacuation |-> FALSE],
      [event_type |-> "MEDICAL_EMERGENCY", priority |-> 5, severity |-> "low",
       needs_evacuation |-> TRUE] }

\* The place the emergencies are at.
MedicalLocation == <<1, 1>>

\* MedicalAgent._define_goals
MedicalGoals ==
    << [goal_id |-> "rapid_response", status |-> "pending"],
       [goal_id |-> "provide_treatment", status |-> "pending"],
       [goal_id |-> "evacuate_patients", status |-> "pending"] >>

\* MedicalAgent.__init__
NewMedicalAgent ==
    [current_state |-> "IDLE",
     event_queue |-> << >>,
     state_history |-> << [state |-> "IDLE", reason |-> <<"initialized">>] >>,
     goals |-> MedicalGoals,
     agent_id |-> "M001",
     current_location |-> <<0, 0>>,
     target_location |-> None,
     patients_treated |-> 0,
     current_mission |-> None,
     medical_supplies |-> 100]

\* MedicalAgent._define_transitions
MedicalTransitions ==
    << Transition("IDLE", "DISPATCHED", "medical_emergency",
                  "MedicalAgent._dispatch_to_emergency"),
       Transition("DISPATCHED", "TREATING", "at_target", "MedicalAgent._start_treatment"),
       Transition("TREATING", "TRANSPORTING", "treated_needs_evacuation",
                  "MedicalAgent._start_evacuation"),
       Transition("TREATING", "COMPLETED", "treated_on_site",
                  "MedicalAgent._complete_on_site"),
       Transition("TRANSPORTING", "COMPLETED", "at_base",
                  "MedicalAgent._complete_evacuation"),
       Transition("COMPLETED", "IDLE", "always", "MedicalAgent._reset_for_next_mission") >>

\* The positions of the goals named id.
GoalsNamed(goals, id) == { i \in DOMAIN goals : goals[i].goal_id = id }

\* MedicalAgent._dispatch_to_emergency; the event's data names no injured count,
\* so the mission's is the default 1.
dispatch_to_emergency(ag, event) ==
    [ag EXCEPT
        !.target_location = event.location,
        !.current_mission =
            << [location |-> event.location, injured_count |-> 1,
                severity |-> event.severity,
                needs_evacuation |-> event.needs_evacuation, treated |-> FALSE] >>,
        !.goals = ActivateGoal(@, "rapid_response")]

\* MedicalAgent._start_treatment
start_treatment(ag) ==
    [ag EXCEPT !.goals =
        ActivateGoal(CompleteGoals(@, GoalsNamed(@, "rapid_response")), "provide_treatment")]

\* MedicalAgent._start_evacuation
start_evacuation(ag) ==
    [ag EXCEPT !.goals =
        ActivateGoal(CompleteGoals(@, GoalsNamed(@, "provide_treatment")),
                     "evacuate_patients")]

\* MedicalAgent._complete_on_site
complete_on_site(ag) ==
    [ag EXCEPT
        !.patients_treated = @ + ag.current_mission[1].injured_count,
        !.goals = CompleteGoals(@, GoalsNamed(@, "provide_treatment"))]

\* MedicalAgent._complete_evacuation
complete_evacuation(ag) ==
    LET active == { i \in DOMAIN ag.goals : ag.goals[i].status = "active" } IN
    [ag EXCEPT
        !.patients_treated = @ + ag.current_mission[1].injured_count,
        !.goals = CompleteGoals(@, active)]

\* MedicalAgent._reset_for_next_mission
medical_reset_for_next_mission(ag) ==
    [ag EXCEPT !.current_mission = None, !.target_location = None]

\* What the action callables of MedicalTransitions do to the agent.
medical_action(t, ag, event) ==
    CASE t.action = "MedicalAgent._dispatch_to_emergency" -> dispatch_to_emergency(ag, event)
      [] t.action = "MedicalAgent._start_treatment" -> start_treatment(ag)
      [] t.action = "MedicalAgent._start_evacuation" -> start_evacuation(ag)
      [] t.action = "MedicalAgent._complete_on_site" -> complete_on_site(ag)
      [] t.action = "MedicalAgent._complete_evacuation" -> complete_evacuation(ag)
      [] t.action = "MedicalAgent._reset_for_next_mission" ->
            medical_reset_for_next_mission(ag)

MedicalActions == { MedicalTransitions[i].action : i \in DOMAIN MedicalTransitions }

\* severity_cost.get(severity, 15)
SeverityCost(severity) ==
    CASE severity = "low" -> 5
      [] severity = "medium" -> 15
      [] severity = "high" -> 25
      [] severity = "critical" -> 40
      [] OTHER -> 15

\* MedicalAgent._perform_treatment
perform_treatment(ag) ==
    IF ag.current_mission # None /\ ~ag.current_mission[1].treated
    THEN [ag EXCEPT
            !.medical_supplies = @ - SeverityCost(ag.current_mission[1].severity),
            !.current_mission[1].treated = TRUE]
    ELSE ag

\* The part of MedicalAgent.update that comes before super().update().
\* _move_toward_target has the text of FieldAgent's, _move_to_hospital that of
\* RescueAgent._move_to_base.
medical_simulation_step(ag) ==
    IF ag.current_state = "DISPATCHED" /\ ag.target_location # None
    THEN move_toward_target(ag)
    ELSE IF ag.current_state = "TREATING" /\ ag.current_mission # None
    THEN perform_treatment(ag)
    ELSE IF ag.current_state = "TRANSPORTING" THEN move_to_base(ag)
    ELSE ag

\* Transition.execute_action: the agent after the action ran, and whether the
\* action raised. env holds what the action takes from outside the agent: the
\* clock reading and the draw of random.choice.
execute_action(t, ag, event, env) ==
    IF t.action \in Actions THEN kernel_action(t, ag)
    ELSE IF t.action \in RescueActions
         THEN [agent |-> rescue_action(t, ag, event), raised |-> FALSE]
    ELSE IF t.action \in MedicalActions
         THEN [agent |-> medical_action(t, ag, event), raised |-> FALSE]
    ELSE IF t.action = "start_investigation" THEN [agent |-> ag, raised |-> FALSE]
    ELSE IF t.action = "send_investigation_report"
         THEN [agent |-> send_investigation_report(ag, env), raised |-> FALSE]
    ELSE IF t.action = "complete_mission"
         THEN [agent |-> complete_mission(ag, env), raised |-> FALSE]
    ELSE [agent |-> reset_for_next_mission(ag), raised |-> FALSE]

\* The environment of an action of the generic rules, which read none of it.
NoEnv == [now |-> 0, finding |-> ""]

-----------------------------------------------------------------------------
(* The coordinator's operations and the router: coordinator_agent.py, lab4_main.py *)

\* The request dispatch_field_agents builds for one field agent.
DispatchRequest(ag, agent_id, details, now) ==
    NewMessage("request", ag.agent_id, agent_id,
               [EmptyDict EXCEPT !.action = "investigate_location",
                                 !.parameters = "dict",
                                 !.location = details.location,
                                 !.mission_type = details.type],
               None, now)

\* One iteration of the loop of dispatch_field_agents, for agent_id, which has no
\* active mission: the request is sent and the mission is tracked.
dispatch_one(ag, agent_id, details, now) ==
    LET request == DispatchRequest(ag, agent_id, details, now)
        sent == send_message(ag, request)
    IN [sent EXCEPT !.active_missions =
            (agent_id :> [location |-> details.location, type |-> details.type,
                          status |-> "dispatched",
                          conversation_id |-> request.conversation_id]) @@ @]

\* The position in agents of the first agent whose agent_id is id, 0 if none.
RECURSIVE FindReceiver(_, _, _)
FindReceiver(order, id, j) ==
    IF j > Len(order) THEN 0
    ELSE IF order[j] = id THEN j
    ELSE FindReceiver(order, id, j + 1)

\* Mutant: a message without a receiver among the agents goes back to its sender.
deliver_Bounce(ags, order, sender, m) ==
    LET j == FindReceiver(order, m.receiver, 1) IN
    IF j = 0 THEN [ags EXCEPT ![sender] = receive_message(@, m)]
    ELSE [ags EXCEPT ![order[j]] = receive_message(@, m)]

\* The inner loop of route_messages for one popped message: the first agent whose
\* agent_id is the receiver gets it; without such an agent the message is dropped.
deliver(ags, order, sender, m) ==
    LET j == FindReceiver(order, m.receiver, 1) IN
    IF j = 0 THEN ags ELSE [ags EXCEPT ![order[j]] = receive_message(@, m)]

\* while sender.outbox: msg = sender.outbox.pop(0); deliver msg
RECURSIVE DrainOutbox(_, _, _)
DrainOutbox(ags, order, sender) ==
    IF ags[sender].outbox = << >> THEN ags
    ELSE LET m == Head(ags[sender].outbox)
             popped == [ags EXCEPT ![sender].outbox = Tail(@)]
         IN DrainOutbox(deliver(popped, order, sender, m), order, sender)

\* for sender in agents, from position i on
RECURSIVE RouteFrom(_, _, _)
RouteFrom(ags, order, i) ==
    IF i > Len(order) THEN ags
    ELSE RouteFrom(DrainOutbox(ags, order, order[i]), order, i + 1)

\* lab4_main.route_messages(agents)
route_messages(ags, order) == RouteFrom(ags, order, 1)

\* The loop of _react_to_event from rule i on: the index of the rule that fires,
\* 0 when the loop ends without firing.
RECURSIVE ScanFrom(_, _, _, _)
ScanFrom(ts, i, ag, event) ==
    IF i > Len(ts) THEN 0
    ELSE IF ts[i].from_state = ag.current_state /\ can_transition(ts[i], ag, event) THEN i
    ELSE ScanFrom(ts, i + 1, ag, event)

\* Mutant: the loop does not break, so the last matching rule decides.
RECURSIVE ScanLast(_, _, _, _)
ScanLast(ts, i, ag, event) ==
    IF i < 1 THEN 0
    ELSE IF ts[i].from_state = ag.current_state /\ can_transition(ts[i], ag, event) THEN i
    ELSE ScanLast(ts, i - 1, ag, event)

firing_rule_Last(ts, ag, event) == ScanLast(ts, Len(ts), ag, event)

firing_rule(ts, ag, event) == ScanFrom(ts, 1, ag, event)

\* Mutant: the state changes and the history is left as it is.
fire_NoHistory(ag, ts, i, event, env) ==
    LET ran == execute_action(ts[i], ag, event, env) IN
    IF ran.raised THEN [agent |-> ran.agent, fired |-> i, raised |-> TRUE]
    ELSE [agent |-> [ran.agent EXCEPT !.current_state = ts[i].to_state],
          fired |-> i, raised |-> FALSE]

\* Mutant: the state is changed and recorded first, and the action runs after.
fire_StateFirst(ag, ts, i, event, env) ==
    LET moved == [ag EXCEPT
                    !.current_state = ts[i].to_state,
                    !.state_history = Append(@,
                        [state |-> ts[i].to_state,
                         reason |-> <<ag.current_state, event.event_type>>])]
        ran == execute_action(ts[i], moved, event, env)
    IN [agent |-> ran.agent, fired |-> i, raised |-> ran.raised]

\* The firing branch of _react_to_event for rule i: the action first, then the
\* state change and the history entry. An exception of the action is not caught:
\* it leaves _react_to_event before anything is assigned.
fire(ag, ts, i, event, env) ==
    LET ran == execute_action(ts[i], ag, event, env) IN
    IF ran.raised THEN [agent |-> ran.agent, fired |-> i, raised |-> TRUE]
    ELSE [agent |->
            log_trace(
                [ran.agent EXCEPT
                    !.current_state = ts[i].to_state,
                    !.state_history = Append(@,
                        [state |-> ts[i].to_state,
                         reason |-> <<ag.current_state, event.event_type>>])],
                "State transition"),
          fired |-> i, raised |-> FALSE]

\* Mutant: an event that matches no rule is recorded in the history all the same.
react_to_event_RecordsNoMatch(ag, ts, event, env) ==
    LET i == firing_rule(ts, ag, event) IN
    IF i = 0
    THEN [agent |-> [ag EXCEPT !.state_history = Append(@,
                        [state |-> ag.current_state,
                         reason |-> <<ag.current_state, event.event_type>>])],
          fired |-> 0, raised |-> FALSE]
    ELSE fire(ag, ts, i, event, env)

\* FSMAgent._react_to_event: the agent afterwards, the rule fired (0: none), and
\* whether an exception left the method.
react_to_event(ag, ts, event, env) ==
    LET i == firing_rule(ts, ag, event) IN
    IF i = 0 THEN [agent |-> ag, fired |-> 0, raised |-> FALSE]
    ELSE fire(ag, ts, i, event, env)

\* The events popped so far by the process_events call in progress (or the last one).
Dequeued == [i \in DOMAIN reacts |-> reacts[i].event]

-----------------------------------------------------------------------------
(* The agents lab4_main creates, and the list it hands to route_messages *)

CoordinatorId == "COORD-001"

FieldAgentIds == << "FIELD-001" >>

AgentOrder == <<CoordinatorId>> \o FieldAgentIds

AgentIds == { AgentOrder[i] : i \in DOMAIN AgentOrder }

InitialAgents ==
    [a \in AgentIds |->
        IF a = CoordinatorId THEN NewCoordinatorAgent(a, FieldAgentIds)
        ELSE NewFieldAgent(a, CoordinatorId)]

\* FSMAgent.transitions of an agent of the messaging layer: only FieldAgent
\* registers rules.
TransitionsOf(ag) == IF ag.class = "field" THEN FieldTransitions ELSE << >>

BetweenTicks == [at |-> "app", i |-> 0, dispatched |-> 0, details |-> None]

NoCalls == [ticks |-> 0, sends |-> 0, dispatches |-> 0, events |-> 0, deliveries |-> 0]

NoCall == << >>

-----------------------------------------------------------------------------
(* The operations of the kernel *)

Init ==
    /\ transitions \in Tables
    /\ fsm = NewAgent("IDLE")
    /\ pc = "idle"
    /\ arrivals = << >>
    /\ reacts = << >>
    /\ entered = None
    /\ agents = InitialAgents
    /\ clock = 0
    /\ phase = BetweenTicks
    /\ handled = << >>
    /\ used = NoCalls
    /\ call = NoCall

\* agent.receive_event(Event(...)), called between two calls of process_events
ReceiveEvent ==
    /\ pc # "drain"
    /\ Len(arrivals) < MaxEvents
    /\ \E kind \in EventKinds :
         LET e == Event(kind, Len(arrivals) + 1) IN
         /\ fsm' = receive_event(fsm, e)
         /\ arrivals' = Append(arrivals, e)
    /\ pc' = "idle"
    /\ UNCHANGED <<transitions, reacts>>
    /\ UNCHANGED entered
    /\ UNCHANGED mvars

\* agent.process_events() is called
ProcessEventsCall ==
    /\ pc # "drain"
    /\ pc' = "drain"
    /\ reacts' = << >>
    /\ UNCHANGED <<fsm, transitions, arrivals>>
    /\ UNCHANGED entered
    /\ UNCHANGED mvars

\* One iteration of the while loop: pop(0), then _react_to_event.
ProcessEventsStep ==
    /\ pc = "drain"
    /\ fsm.event_queue # << >>
    /\ LET event == Head(fsm.event_queue)
           popped == log_trace([fsm EXCEPT !.event_queue = Tail(@)], "Processing event")
           r == react_to_event(popped, transitions, event, NoEnv)
       IN /\ fsm' = r.agent
          /\ reacts' = Append(reacts,
                [event |-> event, from |-> fsm.current_state,
                 fired |-> r.fired, raised |-> r.raised])
          /\ pc' = IF r.raised THEN "raised" ELSE "drain"
    /\ UNCHANGED <<transitions, arrivals>>
    /\ UNCHANGED entered
    /\ UNCHANGED mvars

\* The while loop finds the queue empty: process_events returns.
ProcessEventsReturn ==
    /\ pc = "drain"
    /\ fsm.event_queue = << >>
    /\ pc' = "returned"
    /\ UNCHANGED <<fsm, transitions, arrivals, reacts>>
    /\ UNCHANGED entered
    /\ UNCHANGED mvars

Next ==
    \/ ReceiveEvent
    \/ ProcessEventsCall
    \/ ProcessEventsStep
    \/ ProcessEventsReturn

Spec == Init /\ [][Next]_vars

-----------------------------------------------------------------------------
(* The operations on a RescueAgent *)

InitRescue ==
    /\ fsm = NewRescueAgent
    /\ transitions = RescueTransitions
    /\ pc = "idle"
    /\ arrivals = << >>
    /\ reacts = << >>
    /\ entered = None
    /\ agents = InitialAgents
    /\ clock = 0
    /\ phase = BetweenTicks
    /\ handled = << >>
    /\ used = NoCalls
    /\ call = NoCall

\* agent.receive_event(Event(...)), called between two calls of update
RescueReceiveEvent ==
    /\ pc # "drain"
    /\ Len(arrivals) < MaxRescueEvents
    /\ \E kind \in RescueEventKinds, location \in RescueLocations :
         LET e == RescueEvent(kind, Len(arrivals) + 1, location) IN
         /\ fsm' = receive_event(fsm, e)
         /\ arrivals' = Append(arrivals, e)
    /\ pc' = "idle"
    /\ UNCHANGED <<transitions, reacts, entered>>
    /\ UNCHANGED mvars

\* agent.update() is called: the simulation step, then super().update() enters
\* process_events. _check_goals, which follows process_events, changes nothing.
RescueUpdateCall ==
    /\ pc # "drain"
    /\ entered' = <<fsm>>
    /\ fsm' = rescue_simulation_step(fsm)
    /\ reacts' = << >>
    /\ pc' = "drain"
    /\ UNCHANGED <<transitions, arrivals>>
    /\ UNCHANGED mvars

\* SpecRescue with the trace of the agent recorded.
InitTrace ==
    /\ fsm = NewTracedRescueAgent
    /\ transitions = RescueTransitions
    /\ pc = "idle"
    /\ arrivals = << >>
    /\ reacts = << >>
    /\ entered = None
    /\ agents = InitialAgents
    /\ clock = 0
    /\ phase = BetweenTicks
    /\ handled = << >>
    /\ used = NoCalls
    /\ call = NoCall

NextRescue ==
    \/ RescueReceiveEvent
    \/ RescueUpdateCall
    \/ ProcessEventsStep
    \/ ProcessEventsReturn

SpecRescue == InitRescue /\ [][NextRescue]_vars

SpecTrace == InitTrace /\ [][NextRescue]_vars

-----------------------------------------------------------------------------
(* The operations on a MedicalAgent *)

InitMedical ==
    /\ fsm = NewMedicalAgent
    /\ transitions = MedicalTransitions
    /\ pc = "idle"
    /\ arrivals = << >>
    /\ reacts = << >>
    /\ entered = None
    /\ agents = InitialAgents
    /\ clock = 0
    /\ phase = BetweenTicks
    /\ handled = << >>
    /\ used = NoCalls
    /\ call = NoCall

\* agent.receive_event(Event(...)), called between two calls of update; used
\* counts the events handed over.
MedicalReceiveEvent ==
    /\ pc # "drain"
    /\ used.events < MaxMedicalEvents
    /\ Len(fsm.event_queue) < MaxMedicalQueue
    /\ \E kind \in MedicalEventKinds :
         fsm' = receive_event(fsm, MedicalEvent(kind, used.events + 1, MedicalLocation))
    /\ used' = [used EXCEPT !.events = @ + 1]
    /\ pc' = "idle"
    /\ UNCHANGED <<transitions, arrivals, reacts, entered>>
    /\ UNCHANGED <<agents, clock, phase, handled, call>>

\* agent.update() is called: the simulation step, then super().update() enters
\* process_events.
MedicalUpdateCall ==
    /\ pc # "drain"
    /\ entered' = <<fsm>>
    /\ fsm' = medical_simulation_step(fsm)
    /\ reacts' = << >>
    /\ pc' = "drain"
    /\ UNCHANGED <<transitions, arrivals>>
    /\ UNCHANGED mvars

NextMedical ==
    \/ MedicalReceiveEvent
    \/ MedicalUpdateCall
    \/ ProcessEventsStep
    \/ ProcessEventsReturn

SpecMedical == InitMedical /\ [][NextMedical]_vars

-----------------------------------------------------------------------------
(* The operations of the messaging layer *)

InitMsg ==
    /\ agents = InitialAgents
    /\ clock = 0
    /\ phase = BetweenTicks
    /\ handled = << >>
    /\ used = NoCalls
    /\ call = NoCall
    /\ transitions = << >>
    /\ fsm = NewAgent("IDLE")
    /\ pc = "idle"
    /\ arrivals = << >>
    /\ reacts = << >>
    /\ entered = None

\* Time passes: the next reading of the clock is later.
ClockAdvance ==
    /\ clock < MaxClock
    /\ clock' = clock + 1
    /\ UNCHANGED <<agents, phase, handled, used>>
    /\ UNCHANGED kvars
    /\ call' = NoCall

\* The messages the application builds for sender a and receiver r:
\*   bad_parameters  a request whose "parameters" entry is no dict
\*   proposal        a propose, with a language, ontology, protocol and
\*                   conversation id of its own
\*   status_query    a query-if for the mission status
\*   no_action       a request whose content is a string: validate rejects it
AppMessageKinds == {"bad_parameters", "proposal", "status_query", "no_action"}

AppMessage(kind, a, r, now) ==
    CASE kind = "bad_parameters" ->
            NewMessage("request", a, r,
                       [EmptyDict EXCEPT !.action = "investigate_location",
                                         !.parameters = "nondict"], None, now)
      [] kind = "proposal" ->
            ACLMessage("propose", a, r, TextContent("join the search"), "json",
                       "search-and-rescue", "fipa-contract-net", <<"APP", 0>>,
                       None, None, now)
      [] kind = "status_query" ->
            NewMessage("query-if", a, r, [EmptyDict EXCEPT !.query = "mission_status"],
                       None, now)
      [] kind = "no_action" ->
            NewMessage("request", a, r, TextContent("return to base"), None, now)

\* The application calls a.send_message(ACLMessage(...)) between two ticks.
AppSend ==
    /\ phase.at = "app"
    /\ used.sends < MaxAppSends
    /\ \E a \in AgentIds, r \in AgentIds, kind \in AppMessageKinds :
         /\ r # a
         /\ agents' = [agents EXCEPT ![a] = send_message(@, AppMessage(kind, a, r, clock))]
    /\ used' = [used EXCEPT !.sends = @ + 1]
    /\ UNCHANGED <<clock, phase, handled>>
    /\ UNCHANGED kvars
    /\ call' = NoCall

\* The application hands an event to an agent between two ticks.
ReceiveAgentEvent ==
    /\ phase.at = "app"
    /\ used.events < MaxAgentEvents
    /\ \E a \in AgentIds, kind \in EventKinds :
         agents' = [agents EXCEPT ![a] = receive_event(@, Event(kind, used.events + 1))]
    /\ used' = [used EXCEPT !.events = @ + 1]
    /\ UNCHANGED <<clock, phase, handled>>
    /\ UNCHANGED kvars
    /\ call' = NoCall

Locations == { <<0, 0>>, <<1, 1>> }

\* coordinator.dispatch_field_agents({...}) is called: the state is set and the
\* loop over self.field_agents starts.
DispatchCall ==
    /\ phase.at = "app"
    /\ used.dispatches < MaxDispatches
    /\ \E location \in Locations, required \in 1..Len(FieldAgentIds) :
         phase' = [at |-> "dispatch", i |-> 1, dispatched |-> 0,
                   details |-> [location |-> location, type |-> "earthquake_response",
                                required_agents |-> required]]
    /\ agents' = [agents EXCEPT ![CoordinatorId].current_state = "COORDINATING"]
    /\ used' = [used EXCEPT !.dispatches = @ + 1]
    /\ UNCHANGED <<clock, handled>>
    /\ UNCHANGED kvars
    /\ call' = NoCall

\* One iteration of the loop of dispatch_field_agents.
DispatchStep ==
    /\ phase.at = "dispatch"
    /\ phase.i <= Len(agents[CoordinatorId].field_agents)
    /\ phase.dispatched < phase.details.required_agents
    /\ LET agent_id == agents[CoordinatorId].field_agents[phase.i] IN
       IF agent_id \in DOMAIN agents[CoordinatorId].active_missions
       THEN /\ phase' = [phase EXCEPT !.i = @ + 1]
            /\ UNCHANGED agents
       ELSE /\ phase' = [phase EXCEPT !.i = @ + 1, !.dispatched = @ + 1]
            /\ agents' = [agents EXCEPT ![CoordinatorId] =
                              dispatch_one(@, agent_id, phase.details, clock)]
    /\ UNCHANGED <<clock, handled, used>>
    /\ UNCHANGED kvars
    /\ call' = NoCall

\* The loop of dispatch_field_agents is over: MONITORING if anyone was dispatched.
DispatchReturn ==
    /\ phase.at = "dispatch"
    /\ \/ phase.i > Len(agents[CoordinatorId].field_agents)
       \/ phase.dispatched >= phase.details.required_agents
    /\ agents' = [agents EXCEPT ![CoordinatorId].current_state =
                      IF phase.dispatched > 0 THEN "MONITORING" ELSE @]
    /\ phase' = BetweenTicks
    /\ UNCHANGED <<clock, handled, used>>
    /\ UNCHANGED kvars
    /\ call' = NoCall

\* A tick of the driver starts: route_messages(agents), then the first update().
RouteMessages ==
    /\ phase.at = "app"
    /\ used.ticks < MaxTicks
    /\ agents' = route_messages(agents, AgentOrder)
    /\ phase' = [BetweenTicks EXCEPT !.at = "update", !.i = 1]
    /\ used' = [used EXCEPT !.ticks = @ + 1]
    /\ UNCHANGED <<clock, handled>>
    /\ UNCHANGED kvars
    /\ call' = NoCall

\* The agent whose update() is running.
Updating == AgentOrder[phase.i]

\* update() of the i-th agent is called: the simulation step of the class, then
\* process_messages starts.
UpdateCall ==
    /\ phase.at = "update"
    /\ agents' = [agents EXCEPT ![Updating] = simulation_step(@)]
    /\ phase' = [phase EXCEPT !.at = "messages"]
    /\ handled' = << >>
    /\ UNCHANGED <<clock, used>>
    /\ UNCHANGED kvars
    /\ call' = NoCall

\* How the handling of m by ag ends.
Outcome(ag, m, now) ==
    IF m.performative \notin HandledPerformatives THEN "no_handler"
    ELSE IF handler(ag, m, now).raised THEN "handler_raised"
    ELSE "handled"

\* Mutant: the loop handles the first message of the inbox without taking it out.
ProcessMessageStep_Peek ==
    /\ phase.at = "messages"
    /\ agents[Updating].inbox # << >>
    /\ LET m == Head(agents[Updating].inbox) IN
         /\ agents' = [agents EXCEPT ![Updating] = process_message(@, m, clock)]
         /\ handled' = Append(handled,
               [agent |-> Updating, message |-> m,
                outcome |-> Outcome(agents[Updating], m, clock)])
    /\ UNCHANGED <<clock, phase, used>>
    /\ UNCHANGED kvars
    /\ call' = NoCall

\* One iteration of the loop of process_messages: pop(0), then _process_message.
ProcessMessageStep ==
    /\ phase.at = "messages"
    /\ agents[Updating].inbox # << >>
    /\ LET m == Head(agents[Updating].inbox)
           popped == [agents[Updating] EXCEPT !.inbox = Tail(@)]
       IN /\ agents' = [agents EXCEPT ![Updating] = process_message(popped, m, clock)]
          /\ handled' = Append(handled,
                [agent |-> Updating, message |-> m,
                 outcome |-> Outcome(popped, m, clock)])
    /\ UNCHANGED <<clock, phase, used>>
    /\ UNCHANGED kvars
    /\ call' = NoCall

\* The inbox is empty: process_messages returns and process_events starts.
ProcessMessagesReturn ==
    /\ phase.at = "messages"
    /\ agents[Updating].inbox = << >>
    /\ phase' = [phase EXCEPT !.at = "events"]
    /\ UNCHANGED <<agents, clock, handled, used>>
    /\ UNCHANGED kvars
    /\ call' = NoCall

\* One iteration of the loop of process_events of the agent being updated.
ProcessAgentEventStep ==
    /\ phase.at = "events"
    /\ agents[Updating].event_queue # << >>
    /\ \E finding \in Findings :
         LET event == Head(agents[Updating].event_queue)
             popped == log_trace([agents[Updating] EXCEPT !.event_queue = Tail(@)],
                                 "Processing event")
             r == react_to_event(popped, TransitionsOf(popped), event,
                                 [now |-> clock, finding |-> finding])
         IN agents' = [agents EXCEPT ![Updating] = r.agent]
    /\ UNCHANGED <<clock, phase, handled, used>>
    /\ UNCHANGED kvars
    /\ call' = NoCall

\* Mutant: the driver routes the outboxes again after every update().
UpdateReturn_Routes ==
    /\ phase.at = "events"
    /\ agents[Updating].event_queue = << >>
    /\ phase' = IF phase.i < Len(AgentOrder)
                THEN [phase EXCEPT !.at = "update", !.i = @ + 1]
                ELSE BetweenTicks
    /\ agents' = route_messages(agents, AgentOrder)
    /\ UNCHANGED <<clock, handled, used>>
    /\ UNCHANGED kvars
    /\ call' = NoCall

\* The event queue is empty: update() returns, and the driver goes on to the next
\* agent or, after the last one, ends the tick.
UpdateReturn ==
    /\ phase.at = "events"
    /\ agents[Updating].event_queue = << >>
    /\ phase' = IF phase.i < Len(AgentOrder)
                THEN [phase EXCEPT !.at = "update", !.i = @ + 1]
                ELSE BetweenTicks
    /\ UNCHANGED <<agents, clock, handled, used>>
    /\ UNCHANGED kvars
    /\ call' = NoCall

NextMsg ==
    \/ ClockAdvance
    \/ AppSend
    \/ ReceiveAgentEvent
    \/ DispatchCall
    \/ DispatchStep
    \/ DispatchReturn
    \/ RouteMessages
    \/ UpdateCall
    \/ ProcessMessageStep
    \/ ProcessMessagesReturn
    \/ ProcessAgentEventStep
    \/ UpdateReturn

SpecMsg == InitMsg /\ [][NextMsg]_vars

\* SpecMsg with the loops of update() running on: a loop whose next iteration, or
\* whose exit, is possible takes it.
SpecDrain ==
    /\ SpecMsg
    /\ WF_vars(ProcessMessageStep)
    /\ WF_vars(ProcessMessagesReturn)
    /\ WF_vars(ProcessAgentEventStep)
    /\ WF_vars(UpdateReturn)

-----------------------------------------------------------------------------
(* Goal objects and the operations on them: lab3/fsm_agent.py AgentGoal *)

\* AgentGoal.__init__ at time now (description and priority, which nothing
\* reads, are left out); completed_at is None or <<the time>>.
AgentGoal(goal_id, now) ==
    [goal_id |-> goal_id, status |-> "pending", created_at |-> now,
     completed_at |-> None]

\* Mutant: a goal that has a completion time keeps it.
complete_KeepsFirstTime(goal, now) ==
    [goal EXCEPT !.status = "completed",
                 !.completed_at = IF @ = None THEN <<now>> ELSE @]

\* AgentGoal.complete at time now
complete(goal, now) == [goal EXCEPT !.status = "completed", !.completed_at = <<now>>]

\* AgentGoal.fail at time now
fail(goal, now) == [goal EXCEPT !.status = "failed", !.completed_at = <<now>>]

\* An agent that was given the three goals of RescueAgent._define_goals.
InitGoal ==
    /\ fsm = [NewAgent("IDLE") EXCEPT !.goals =
                [i \in DOMAIN RescueGoals |-> AgentGoal(RescueGoals[i].goal_id, 0)]]
    /\ transitions = << >>
    /\ pc = "idle"
    /\ arrivals = << >>
    /\ reacts = << >>
    /\ entered = None
    /\ agents = InitialAgents
    /\ clock = 0
    /\ phase = BetweenTicks
    /\ handled = << >>
    /\ used = NoCalls
    /\ call = NoCall

\* goal.status = "active", as the transition actions assign it
GoalActivate ==
    /\ \E i \in DOMAIN fsm.goals : fsm' = [fsm EXCEPT !.goals[i].status = "active"]
    /\ call' = NoCall
    /\ UNCHANGED <<transitions, pc, arrivals, reacts, entered>>
    /\ UNCHANGED <<agents, clock, phase, handled, used>>

\* goal.complete() is called; call records the call and the goal as it was.
GoalComplete ==
    /\ \E i \in DOMAIN fsm.goals :
         /\ fsm' = [fsm EXCEPT !.goals[i] = complete(@, clock)]
         /\ call' = << [op |-> "complete", goal |-> i, before |-> fsm.goals[i]] >>
    /\ UNCHANGED <<transitions, pc, arrivals, reacts, entered>>
    /\ UNCHANGED <<agents, clock, phase, handled, used>>

\* goal.fail() is called
GoalFail ==
    /\ \E i \in DOMAIN fsm.goals :
         /\ fsm' = [fsm EXCEPT !.goals[i] = fail(@, clock)]
         /\ call' = << [op |-> "fail", goal |-> i, before |-> fsm.goals[i]] >>
    /\ UNCHANGED <<transitions, pc, arrivals, reacts, entered>>
    /\ UNCHANGED <<agents, clock, phase, handled, used>>

NextGoal ==
    \/ ClockAdvance
    \/ GoalActivate
    \/ GoalComplete
    \/ GoalFail

SpecGoal == InitGoal /\ [][NextGoal]_vars

-----------------------------------------------------------------------------
(* update() as a whole, and two field agents updated in either order *)

\* CommunicatingAgent.process_messages: the loop, run to its end.
RECURSIVE process_messages(_, _)
process_messages(ag, now) ==
    IF ag.inbox = << >> THEN ag
    ELSE process_messages(
            process_message([ag EXCEPT !.inbox = Tail(@)], Head(ag.inbox), now), now)

\* Whether reacting to event makes the agent call random.choice: the rule that
\* fires has the action _send_investigation_report, which draws unless it
\* returns early for want of a coordinator.
Draws(ag, ts, event) ==
    LET i == firing_rule(ts, ag, event) IN
    /\ i # 0
    /\ ts[i].action = "send_investigation_report"
    /\ ag.coordinator_id # ""

\* What the next call of random.choice returns; an action reads it only when it
\* makes that call, and no run of the model makes one with rng used up.
NextChoice(rng) == IF rng # << >> THEN Head(rng) ELSE ""

\* FSMAgent.process_events: the loop, run to its end. rng is the state of the
\* random module: the values random.choice returns next, in order; each call
\* takes the first. The result is the agent and the state of the module.
RECURSIVE process_events(_, _, _)
process_events(ag, now, rng) ==
    IF ag.event_queue = << >> THEN [agent |-> ag, rng |-> rng]
    ELSE LET event == Head(ag.event_queue)
             popped == log_trace([ag EXCEPT !.event_queue = Tail(@)], "Processing event")
             ts == TransitionsOf(popped)
             r == react_to_event(popped, ts, event,
                                 [now |-> now, finding |-> NextChoice(rng)])
         IN process_events(r.agent, now,
                           IF Draws(popped, ts, event) THEN Tail(rng) ELSE rng)

\* update() of an agent of the messaging layer: the simulation step, then
\* process_messages, then process_events (and _check_goals, which changes nothing).
update(ag, now, rng) ==
    process_events(process_messages(simulation_step(ag), now), now, rng)

\* agents[a].update() in the global state g: the agents and the random module.
UpdateIn(g, a, now) ==
    LET r == update(g.agents[a], now, g.rng) IN
    [agents |-> [g.agents EXCEPT ![a] = r.agent], rng |-> r.rng]

PairOrder == << "FIELD-001", "FIELD-002" >>

PairIds == { PairOrder[i] : i \in DOMAIN PairOrder }

\* The one kind of event the field agents of SpecPair are handed.
PairEventKind == [event_type |-> "FIRE_DETECTED", priority |-> 4]

\* Two FieldAgent objects with their coordinator set, and nothing else.
InitPair ==
    /\ agents = [a \in PairIds |-> NewFieldAgent(a, CoordinatorId)]
    /\ clock = 0
    /\ phase = BetweenTicks
    /\ handled = << >>
    /\ used = NoCalls
    /\ call = NoCall
    /\ transitions = << >>
    /\ fsm = NewAgent("IDLE")
    /\ pc = "idle"
    /\ arrivals = << >>
    /\ reacts = << >>
    /\ entered = None

\* The router hands a field agent the request dispatch_field_agents built for it.
PairReceiveRequest ==
    /\ used.deliveries < MaxPairRequests
    /\ \E a \in PairIds, location \in Locations :
         agents' = [agents EXCEPT ![a] =
            receive_message(@,
                DispatchRequest(NewCoordinatorAgent(CoordinatorId, PairOrder), a,
                                [location |-> location, type |-> "investigation"],
                                clock))]
    /\ used' = [used EXCEPT !.deliveries = @ + 1]
    /\ UNCHANGED <<clock, phase, handled>>
    /\ UNCHANGED kvars
    /\ call' = NoCall

\* agent.receive_event(Event(...)) on a field agent
PairReceiveEvent ==
    /\ used.events < MaxPairEvents
    /\ \E a \in PairIds :
         agents' = [agents EXCEPT ![a] =
                        receive_event(@, Event(PairEventKind, used.events + 1))]
    /\ used' = [used EXCEPT !.events = @ + 1]
    /\ UNCHANGED <<clock, phase, handled>>
    /\ UNCHANGED kvars
    /\ call' = NoCall

\* agent.update() on a field agent, from call to return; random.choice, if it is
\* called, returns any of the findings.
PairUpdate ==
    /\ \E a \in PairIds, finding \in Findings :
         agents' = [agents EXCEPT ![a] = update(@, clock, <<finding>>).agent]
    /\ UNCHANGED <<clock, phase, handled, used>>
    /\ UNCHANGED kvars
    /\ call' = NoCall

NextPair ==
    \/ PairReceiveRequest
    \/ PairReceiveEvent
    \/ PairUpdate

SpecPair == InitPair /\ [][NextPair]_vars

-----------------------------------------------------------------------------
(* The operations on plain CommunicatingAgents *)

\* Two CommunicatingAgent objects, of the class itself, under the ids and in the
\* list order of the driver.
InitBase ==
    /\ agents = [a \in AgentIds |-> NewCommunicatingAgent(a, "base", "IDLE")]
    /\ clock = 0
    /\ phase = BetweenTicks
    /\ handled = << >>
    /\ used = NoCalls
    /\ call = NoCall
    /\ transitions = << >>
    /\ fsm = NewAgent("IDLE")
    /\ pc = "idle"
    /\ arrivals = << >>
    /\ reacts = << >>
    /\ entered = None

\* The messages handed to send_message, by what they are:
\*   request, inform, confirm, disconfirm   valid messages of that performative
\*   to_nobody          an inform whose receiver is the id of no agent
\*   no_sender, no_receiver                 sender or receiver is ""
\*   no_performative    performative is None
\*   no_content         content is None
\*   request_text       a request whose content is a string
\*   request_no_action  a request whose content is a dict without "action"
\* The application sends the kinds of ValidKinds and of InvalidKinds; a confirm
\* reaches an agent while it drains its inbox.
ValidKinds == {"request", "inform", "disconfirm", "to_nobody"}

InvalidKinds ==
    {"no_sender", "no_receiver", "no_performative", "no_content", "request_text",
     "request_no_action"}

BaseMessage(kind, a, r, now) ==
    CASE kind = "request" ->
            NewMessage("request", a, r, [EmptyDict EXCEPT !.action = "evacuate"], None, now)
      [] kind = "inform" -> NewMessage("inform", a, r, TextContent("area secured"), None, now)
      [] kind = "confirm" ->
            NewMessage("confirm", a, r, [EmptyDict EXCEPT !.acknowledged = TRUE], None, now)
      [] kind = "disconfirm" ->
            NewMessage("disconfirm", a, r, [EmptyDict EXCEPT !.status = "withdrawn"],
                       None, now)
      [] kind = "to_nobody" ->
            NewMessage("inform", a, "FIELD-404", TextContent("area secured"), None, now)
      [] kind = "no_sender" ->
            NewMessage("inform", "", r, TextContent("area secured"), None, now)
      [] kind = "no_receiver" ->
            NewMessage("inform", a, "", TextContent("area secured"), None, now)
      [] kind = "no_performative" ->
            NewMessage("", a, r, TextContent("area secured"), None, now)
      [] kind = "no_content" -> NewMessage("inform", a, r, NoneContent, None, now)
      [] kind = "request_text" ->
            NewMessage("request", a, r, TextContent("evacuate"), None, now)
      [] kind = "request_no_action" ->
            NewMessage("request", a, r, [EmptyDict EXCEPT !.status = "urgent"], None, now)

\* The application calls a.send_message(ACLMessage(...)) between two ticks.
BaseSend ==
    /\ phase.at = "app"
    /\ used.sends < MaxBaseSends
    /\ \E a \in AgentIds, r \in AgentIds, kind \in ValidKinds \cup InvalidKinds :
         /\ r # a
         /\ agents' = [agents EXCEPT ![a] = send_message(@, BaseMessage(kind, a, r, clock))]
         /\ call' = <<[agent |-> a, message |-> BaseMessage(kind, a, r, clock)]>>
    /\ used' = [used EXCEPT !.sends = @ + 1]
    /\ UNCHANGED <<clock, phase, handled>>
    /\ UNCHANGED kvars

\* receive_message is called on the agent whose process_messages is running,
\* between two iterations of its loop, with a message of the other agent.
ReceiveDuringDrain ==
    /\ phase.at = "messages"
    /\ used.deliveries < MaxDeliveries
    /\ \E a \in AgentIds, kind \in {"confirm"} :
         /\ a # Updating
         /\ agents' = [agents EXCEPT ![Updating] =
                           receive_message(@, BaseMessage(kind, a, Updating, clock))]
    /\ used' = [used EXCEPT !.deliveries = @ + 1]
    /\ UNCHANGED <<clock, phase, handled>>
    /\ UNCHANGED kvars
    /\ call' = NoCall

NextBase ==
    \/ ClockAdvance
    \/ BaseSend
    \/ ReceiveDuringDrain
    \/ RouteMessages
    \/ UpdateCall
    \/ ProcessMessageStep
    \/ ProcessMessagesReturn
    \/ UpdateReturn

SpecBase == InitBase /\ [][NextBase]_vars

-----------------------------------------------------------------------------
(* The operations on one FieldAgent, updated step by step *)

\* The field agent of SpecField.
FieldId == FieldAgentIds[1]

\* The requests that reach the field agent, by their content:
\*   investigate     {"action": "investigate_location", "parameters": {...}}, as
\*                   dispatch_field_agents builds it
\*   bad_parameters  the same action with a "parameters" entry that is no dict
\*   return_to_base  {"action": "return_to_base"}
\*   assist_agent    {"action": "assist_agent", "parameters": {...}}
\*   unknown_action  {"action": "evacuate"}
FieldRequestKinds ==
    {"investigate", "bad_parameters", "return_to_base", "assist_agent", "unknown_action"}

FieldRequest(kind, location, now) ==
    CASE kind = "investigate" ->
            DispatchRequest(NewCoordinatorAgent(CoordinatorId, FieldAgentIds), FieldId,
                            [location |-> location, type |-> "investigation"], now)
      [] kind = "bad_parameters" -> AppMessage("bad_parameters", CoordinatorId, FieldId, now)
      [] kind = "return_to_base" ->
            NewMessage("request", CoordinatorId, FieldId,
                       [EmptyDict EXCEPT !.action = "return_to_base"], None, now)
      [] kind = "assist_agent" ->
            NewMessage("request", CoordinatorId, FieldId,
                       [EmptyDict EXCEPT !.action = "assist_agent", !.parameters = "dict"],
                       None, now)
      [] kind = "unknown_action" ->
            NewMessage("request", CoordinatorId, FieldId,
                       [EmptyDict EXCEPT !.action = "evacuate"], None, now)

\* The router hands the field agent a request the coordinator sent.
FieldReceiveRequest ==
    /\ phase.at = "app"
    /\ used.deliveries < MaxFieldRequests
    /\ \E kind \in FieldRequestKinds, location \in Locations :
         agents' = [agents EXCEPT ![FieldId] =
                        receive_message(@, FieldRequest(kind, location, clock))]
    /\ used' = [used EXCEPT !.deliveries = @ + 1]
    /\ UNCHANGED <<clock, phase, handled>>
    /\ UNCHANGED kvars
    /\ call' = NoCall

\* agent.receive_event(Event(...)) on the field agent, between two updates
FieldReceiveEvent ==
    /\ phase.at = "app"
    /\ used.events < MaxFieldEvents
    /\ agents' = [agents EXCEPT ![FieldId] =
                      receive_event(@, Event(PairEventKind, used.events + 1))]
    /\ used' = [used EXCEPT !.events = @ + 1]
    /\ UNCHANGED <<clock, phase, handled>>
    /\ UNCHANGED kvars
    /\ call' = NoCall

\* Mutant: update() goes to the event queue with the inbox left as it is.
FieldUpdateCall_EventsOnly ==
    /\ phase.at = "app"
    /\ entered' = <<agents[FieldId]>>
    /\ agents' = [agents EXCEPT ![FieldId] = simulation_step(@)]
    /\ phase' = [BetweenTicks EXCEPT !.at = "events", !.i = 2]
    /\ handled' = << >>
    /\ UNCHANGED <<clock, used>>
    /\ UNCHANGED <<fsm, transitions, pc, arrivals, reacts>>
    /\ call' = NoCall

\* update() of the field agent is called: the simulation step, then
\* process_messages starts; entered keeps the agent as the call found it.
FieldUpdateCall ==
    /\ phase.at = "app"
    /\ entered' = <<agents[FieldId]>>
    /\ agents' = [agents EXCEPT ![FieldId] = simulation_step(@)]
    /\ phase' = [BetweenTicks EXCEPT !.at = "messages", !.i = 2]
    /\ handled' = << >>
    /\ UNCHANGED <<clock, used>>
    /\ UNCHANGED <<fsm, transitions, pc, arrivals, reacts>>
    /\ call' = NoCall

NextField ==
    \/ ClockAdvance
    \/ FieldReceiveRequest
    \/ FieldReceiveEvent
    \/ FieldUpdateCall
    \/ ProcessMessageStep
    \/ ProcessMessagesReturn
    \/ ProcessAgentEventStep
    \/ UpdateReturn

SpecField == InitMsg /\ [][NextField]_vars

-----------------------------------------------------------------------------
(* The coordinator with two field agents, called and ticked as a whole *)

\* CoordinatorAgent.assess_situation: the state goes to ASSESSING and on to
\* COORDINATING, and the assessment is filed.
assess_situation(ag, disaster_info) ==
    [ag EXCEPT !.situation_reports = Append(@, disaster_info),
               !.current_state = "COORDINATING"]

\* The loop of dispatch_field_agents from position i of self.field_agents on,
\* with dispatched requests sent so far: the agent afterwards and the count.
RECURSIVE DispatchFrom(_, _, _, _, _)
DispatchFrom(ag, i, dispatched, details, now) ==
    IF i > Len(ag.field_agents) \/ dispatched >= details.required_agents
    THEN [agent |-> ag, dispatched |-> dispatched]
    ELSE IF ag.field_agents[i] \in DOMAIN ag.active_missions
         THEN DispatchFrom(ag, i + 1, dispatched, details, now)
    ELSE DispatchFrom(dispatch_one(ag, ag.field_agents[i], details, now), i + 1,
                      dispatched + 1, details, now)

\* Mutant: the coordinator monitors after every dispatch call.
dispatch_field_agents_AlwaysMonitors(ag, details, now) ==
    [DispatchFrom(ag, 1, 0, details, now).agent EXCEPT !.current_state = "MONITORING"]

\* CoordinatorAgent.dispatch_field_agents, from call to return
dispatch_field_agents(ag, details, now) ==
    LET r == DispatchFrom([ag EXCEPT !.current_state = "COORDINATING"], 1, 0, details, now)
    IN [r.agent EXCEPT !.current_state = IF r.dispatched > 0 THEN "MONITORING" ELSE @]

\* for agent in agents: agent.update(), from position i of the list on; g holds
\* the agents and the state of the random module.
RECURSIVE UpdateAllFrom(_, _, _, _)
UpdateAllFrom(g, order, i, now) ==
    IF i > Len(order) THEN g
    ELSE UpdateAllFrom(UpdateIn(g, order[i], now), order, i + 1, now)

\* One tick of the driver: route_messages(agents), then update() on every agent.
tick(ags, order, now, rng) ==
    UpdateAllFrom([agents |-> route_messages(ags, order), rng |-> rng], order, 1, now).agents

\* The list lab4_main hands to route_messages, with two field agents.
CoordOrder == <<CoordinatorId>> \o PairOrder

\* Where the disaster is: the place of mission_details["location"].
CoordLocation == <<0, 0>>

InitCoord ==
    /\ agents = [a \in {CoordinatorId} \cup PairIds |->
                    IF a = CoordinatorId THEN NewCoordinatorAgent(a, PairOrder)
                    ELSE NewFieldAgent(a, CoordinatorId)]
    /\ clock = 0
    /\ phase = BetweenTicks
    /\ handled = << >>
    /\ used = NoCalls
    /\ call = NoCall
    /\ transitions = << >>
    /\ fsm = NewAgent("IDLE")
    /\ pc = "idle"
    /\ arrivals = << >>
    /\ reacts = << >>
    /\ entered = None

\* coordinator.assess_situation({...}) is called.
CoordAssess ==
    /\ Len(agents[CoordinatorId].situation_reports) < MaxAssessments
    /\ \E required \in 1..Len(PairOrder) :
         agents' = [agents EXCEPT ![CoordinatorId] =
                        assess_situation(@, [location |-> CoordLocation, type |-> "earthquake",
                                             required_agents |-> required])]
    /\ UNCHANGED <<clock, phase, handled, used>>
    /\ UNCHANGED kvars
    /\ call' = NoCall

\* coordinator.dispatch_field_agents({...}) is called and returns; call records
\* the call: its argument and the coordinator as the call found it.
CoordDispatch ==
    /\ used.dispatches < MaxCoordDispatches
    /\ \E required \in 1..Len(PairOrder) :
         LET details == [location |-> CoordLocation, type |-> "earthquake_response",
                         required_agents |-> required]
         IN /\ agents' = [agents EXCEPT ![CoordinatorId] =
                              dispatch_field_agents(@, details, clock)]
            /\ call' = << [op |-> "dispatch_field_agents", details |-> details,
                           before |-> agents[CoordinatorId]] >>
    /\ used' = [used EXCEPT !.dispatches = @ + 1]
    /\ UNCHANGED <<clock, phase, handled>>
    /\ UNCHANGED kvars

\* agent.receive_event(Event(...)) on the first field agent, between two ticks
CoordEvent ==
    /\ used.events < MaxCoordEvents
    /\ agents' = [agents EXCEPT ![PairOrder[1]] =
                      receive_event(@, Event(PairEventKind, used.events + 1))]
    /\ used' = [used EXCEPT !.events = @ + 1]
    /\ UNCHANGED <<clock, phase, handled>>
    /\ UNCHANGED kvars
    /\ call' = NoCall

\* One tick of the driver loop, from route_messages to the last update();
\* random.choice returns any of the findings, call by call.
CoordTick ==
    /\ used.ticks < MaxCoordTicks
    /\ \E d1 \in Findings, d2 \in Findings :
         agents' = tick(agents, CoordOrder, clock, <<d1, d2>>)
    /\ used' = [used EXCEPT !.ticks = @ + 1]
    /\ UNCHANGED <<clock, phase, handled>>
    /\ UNCHANGED kvars
    /\ call' = NoCall

NextCoord ==
    \/ CoordAssess
    \/ CoordDispatch
    \/ CoordEvent
    \/ CoordTick

SpecCoord == InitCoord /\ [][NextCoord]_vars

-----------------------------------------------------------------------------
(* Properties of the kernel, checked under Spec *)

Min(S) == CHOOSE x \in S : \A y \in S : x <= y

\* The guard of rule t, called with event, returns true (no exception, not false).
GuardTrue(t, event) ==
    \/ t.condition = "always"
    \/ t.condition = "on_collapse" /\ event.event_type = "BUILDING_COLLAPSE"

\* The rules registered for state whose guard returns true on event.
Matching(state, event) ==
    { i \in DOMAIN transitions :
        transitions[i].from_state = state /\ GuardTrue(transitions[i], event) }

\* An iteration of the drain is about to pop an event.
AboutToPop == pc = "drain" /\ fsm.event_queue # << >>

\* s lists events by priority, highest first, and by arrival among equal priorities.
InDequeueOrder(s) ==
    \A i, j \in DOMAIN s :
        i < j => \/ s[i].priority > s[j].priority
                 \/ s[i].priority = s[j].priority /\ s[i].seq < s[j].seq

\* C1: the events one call of process_events pops come in non-increasing priority
\* order, events of equal priority in the order of their arrival; while the call
\* runs, the events still queued come after the popped ones in that same order.
C1_DequeueOrder ==
    /\ InDequeueOrder(Dequeued)
    /\ InDequeueOrder(fsm.event_queue)
    /\ pc = "drain" => InDequeueOrder(Dequeued \o fsm.event_queue)

\* C1 witness: FIRE_DETECTED, BUILDING_COLLAPSE, FIRE_DETECTED arrived in that order
\* and one call popped the collapse first, then the two fires in arrival order.
C1_Witness ==
    /\ pc = "returned"
    /\ Len(Dequeued) = 3
    /\ arrivals[1].priority < arrivals[2].priority
    /\ Dequeued = <<arrivals[2], arrivals[1], arrivals[3]>>

\* C2: for each popped event the rule that fires is the first registered rule whose
\* from_state is the current state and whose guard returns true, and none fires when
\* there is no such rule; the state changes only to that rule's to_state, and the
\* history grows by at most one entry, which records that state.
C2_FirstMatchOnly ==
    [][ AboutToPop =>
          LET event == Head(fsm.event_queue)
              M == Matching(fsm.current_state, event)
              first == IF M = {} THEN 0 ELSE Min(M)
              h == fsm.state_history
              h2 == fsm'.state_history
          IN /\ reacts'[Len(reacts')].fired = first
             /\ fsm'.current_state # fsm.current_state =>
                    first # 0 /\ fsm'.current_state = transitions[first].to_state
             /\ \/ h2 = h
                \/ /\ first # 0
                   /\ Len(h2) = Len(h) + 1
                   /\ SubSeq(h2, 1, Len(h)) = h
                   /\ h2[Len(h2)].state = transitions[first].to_state
                   /\ fsm'.current_state = transitions[first].to_state
       ]_vars

\* C2 witness: two rules matched the popped event, with different targets, and the
\* first one fired and changed the state.
C2_Witness ==
    /\ Len(transitions) = 2
    /\ reacts # << >>
    /\ LET r == reacts[Len(reacts)] IN
         /\ Matching(r.from, r.event) = {1, 2}
         /\ transitions[1].to_state # transitions[2].to_state
         /\ r.fired = 1
         /\ ~r.raised
         /\ fsm.current_state = transitions[1].to_state

\* C3: a rule whose guard raises does not fire and does not change the state; the
\* rules registered after it are still evaluated, so the first rule whose guard
\* returns true fires; and the exception does not end the drain (only an exception
\* of a fired rule's action does).
C3_RaisingGuardIsNoMatch ==
    [][ AboutToPop =>
          LET event == Head(fsm.event_queue)
              s == fsm.current_state
              Raising == { i \in DOMAIN transitions :
                             /\ transitions[i].from_state = s
                             /\ transitions[i].condition = "raises" }
              M == Matching(s, event)
              fired == reacts'[Len(reacts')].fired
          IN Raising # {} =>
               /\ fired \notin Raising
               /\ M # {} => fired = Min(M)
               /\ M = {} => fsm'.current_state = s /\ fsm'.state_history = fsm.state_history
               /\ pc' = "raised" => fired # 0 /\ transitions[fired].action = "raises"
               /\ pc' # "raised" => pc' = "drain"
       ]_vars

\* C3 witness: the guard of rule 1 raised on the first event of a call, rule 2 fired
\* for that event, and the call went on to the next event and returned.
C3_Witness ==
    /\ pc = "returned"
    /\ Len(reacts) = 2
    /\ Len(transitions) = 2
    /\ transitions[1].condition = "raises"
    /\ transitions[1].from_state = reacts[1].from
    /\ reacts[1].fired = 2
    /\ fsm.event_queue = << >>

\* C4 (as claimed): when process_events is over, also when the action of a fired
\* rule raised, every event of the queue has been popped and processed.
C4_DrainSurvivesActionFailure ==
    pc \in {"returned", "raised"} => fsm.event_queue = << >>

\* C5: an event for which no rule has the current state as from_state and a guard
\* that returns true is removed from the queue and leaves current_state,
\* state_history and the goals as they were.
C5_UnmatchedEventConsumed ==
    [][ (AboutToPop /\ Matching(fsm.current_state, Head(fsm.event_queue)) = {}) =>
          /\ fsm'.event_queue = Tail(fsm.event_queue)
          /\ fsm'.current_state = fsm.current_state
          /\ fsm'.state_history = fsm.state_history
          /\ fsm'.goals = fsm.goals
          /\ pc' = "drain"
       ]_vars

\* C5 witness: a call returned after popping an event that fired nothing, although
\* a rule is registered for the state it met.
C5_Witness ==
    /\ pc = "returned"
    /\ \E k \in DOMAIN reacts :
         /\ reacts[k].fired = 0
         /\ \E i \in DOMAIN transitions : transitions[i].from_state = reacts[k].from

\* The rule table of the scenario: IDLE -> RESPONDING on BUILDING_COLLAPSE.
ScenarioTable == << Transition("IDLE", "RESPONDING", "on_collapse", "none") >>

\* FIRE_DETECTED (priority 4) arrived first, BUILDING_COLLAPSE (priority 5) second,
\* and one call of process_events popped both and returned.
ScenarioRan ==
    /\ transitions = ScenarioTable
    /\ Len(arrivals) = 2
    /\ arrivals[1].event_type = "FIRE_DETECTED" /\ arrivals[1].priority = 4
    /\ arrivals[2].event_type = "BUILDING_COLLAPSE" /\ arrivals[2].priority = 5
    /\ pc = "returned"
    /\ Len(reacts) = 2

\* C6: after the scenario the state is RESPONDING, exactly one transition was
\* recorded, the collapse was processed first (from IDLE), and FIRE_DETECTED was
\* popped second, from RESPONDING, and fired nothing.
C6_Scenario ==
    ScenarioRan =>
        /\ fsm.current_state = "RESPONDING"
        /\ fsm.state_history =
             << [state |-> "IDLE", reason |-> <<"initialized">>],
                [state |-> "RESPONDING", reason |-> <<"IDLE", "BUILDING_COLLAPSE">>] >>
        /\ reacts[1].event = arrivals[2] /\ reacts[1].from = "IDLE" /\ reacts[1].fired = 1
        /\ reacts[2].event = arrivals[1] /\ reacts[2].from = "RESPONDING"
        /\ reacts[2].fired = 0
        /\ fsm.event_queue = << >>
        /\ fsm.goals = InitialGoals

\* C6 witness: the scenario ran.
C6_Witness == ScenarioRan

-----------------------------------------------------------------------------
(* Properties of the messaging layer, checked under SpecMsg *)

\* The step is one iteration of the loop of process_messages.
HandlesMessage == phase.at = "messages" /\ Len(handled') = Len(handled) + 1

\* r is a not-understood reply to m, sent by agent a.
IsNotUnderstoodFor(r, m, a) ==
    /\ r.performative = "not-understood"
    /\ r.sender = a
    /\ r.receiver = m.sender
    /\ r.in_reply_to = m.message_id
    /\ r.content.kind = "dict"
    /\ r.content.original_message = m.message_id

\* The performatives a handler is registered for, read off the three
\* message_handlers tables.
Registered == {"inform", "request", "query-if", "confirm", "refuse"}

\* C7: when process_messages handles a message whose performative has no registered
\* handler, exactly one message is appended to the agent's outbox: a not-understood
\* addressed to the original sender, whose content carries a reason and the original
\* message_id and whose in_reply_to is the original message_id.
C7_NoHandlerNotUnderstood ==
    [][ (HandlesMessage /\ Head(agents[Updating].inbox).performative \notin Registered)
        => LET m == Head(agents[Updating].inbox)
               before == agents[Updating].outbox
               after == agents'[Updating].outbox
           IN /\ Len(after) = Len(before) + 1
              /\ SubSeq(after, 1, Len(before)) = before
              /\ IsNotUnderstoodFor(after[Len(after)], m, Updating)
              /\ after[Len(after)].content.reason # None ]_vars

C7_Witness ==
    \E i \in DOMAIN handled :
        /\ handled[i].outcome = "no_handler"
        /\ handled[i].message.performative = "propose"
        /\ \E j \in DOMAIN agents[handled[i].agent].outbox :
              IsNotUnderstoodFor(agents[handled[i].agent].outbox[j], handled[i].message,
                                 handled[i].agent)

\* The handler of ag for m raises: a field agent gets a request to investigate (with
\* no mission at hand) or to assist whose "parameters" entry is no dict, so that
\* parameters.get raises AttributeError.
HandlerRaises(ag, m) ==
    /\ ag.class = "field"
    /\ m.performative = "request"
    /\ m.content.kind = "dict"
    /\ m.content.parameters = "nondict"
    /\ \/ m.content.action = "investigate_location" /\ ag.current_mission = None
       \/ m.content.action = "assist_agent"

\* C8: when a registered handler raises while handling an inbox message, the failure
\* is caught, a not-understood reply carrying the failure text is sent to the original
\* sender, and process_messages goes on with the remaining inbox messages in the same
\* call (it returns only when the inbox is empty).
C8_HandlerFailureNotUnderstood ==
    [][ /\ (HandlesMessage /\ HandlerRaises(agents[Updating], Head(agents[Updating].inbox)))
           => LET m == Head(agents[Updating].inbox)
                  before == agents[Updating].outbox
                  after == agents'[Updating].outbox
              IN /\ Len(after) = Len(before) + 1
                 /\ SubSeq(after, 1, Len(before)) = before
                 /\ IsNotUnderstoodFor(after[Len(after)], m, Updating)
                 /\ after[Len(after)].content.reason = AttributeError
                 /\ agents'[Updating].inbox = Tail(agents[Updating].inbox)
                 /\ phase' = phase
        /\ (phase.at = "messages" /\ phase'.at # "messages")
           => agents[Updating].inbox = << >> ]_vars

C8_Witness ==
    /\ Len(handled) >= 2
    /\ handled[1].outcome = "handler_raised"
    /\ handled[1].message.content.parameters = "nondict"
    /\ \E j \in DOMAIN agents[handled[1].agent].outbox :
          IsNotUnderstoodFor(agents[handled[1].agent].outbox[j], handled[1].message,
                             handled[1].agent)
    /\ handled[2].outcome = "handled"

\* C9: every conversation terminates: under the tick driver, after the coordinator
\* dispatched a request to a field agent, a not-understood reply does not itself
\* trigger a not-understood reply (so that the exchange comes to rest with all
\* inboxes and outboxes empty). Stated for the runs in which the application does
\* nothing but dispatch: no agent ever answers a not-understood with a
\* not-understood.
C9_NotUnderstoodEndsExchange ==
    (used.sends = 0 /\ used.events = 0)
    => \A a \in AgentIds :
         \A i \in DOMAIN agents[a].message_history :
            LET r == agents[a].message_history[i] IN
            ~ /\ r.performative = "not-understood"
              /\ r.sender = a
              /\ \E j \in DOMAIN agents[a].message_history :
                    LET m == agents[a].message_history[j] IN
                    /\ m.performative = "not-understood"
                    /\ m.receiver = a
                    /\ r.in_reply_to = m.message_id
                    /\ r.conversation_id = m.conversation_id

\* The messages in the inboxes: the messages an agent may reply to.
InInbox ==
    UNION { { agents[a].inbox[i] : i \in DOMAIN agents[a].inbox } : a \in AgentIds }

\* The contents a reply is built with.
ReplyContents ==
    { NoneContent, TextContent("ok"), [EmptyDict EXCEPT !.reason = <<"busy">>] }

\* C10: for every message m and every performative, content and sender,
\* m.create_reply(...) returns a message whose conversation_id equals
\* m.conversation_id, whose in_reply_to equals m.message_id, whose receiver is
\* m.sender, and whose language, ontology and protocol equal m's.
C10_CreateReply ==
    \A m \in InInbox, performative \in Performatives, content \in ReplyContents,
       sender \in AgentIds :
        LET r == create_reply(m, performative, content, sender, clock) IN
        /\ r.conversation_id = m.conversation_id
        /\ r.in_reply_to = m.message_id
        /\ r.receiver = m.sender
        /\ r.language = m.language
        /\ r.ontology = m.ontology
        /\ r.protocol = m.protocol
        /\ r.performative = performative
        /\ r.content = content
        /\ r.sender = sender

\* A reply to a message with a language, ontology, protocol and conversation id of
\* its own has been built by create_reply and sent.
C10_Witness ==
    \E a \in AgentIds :
        \E i \in DOMAIN agents[a].outbox, j \in DOMAIN agents[a].message_history :
            LET r == agents[a].outbox[i]
                m == agents[a].message_history[j]
            IN /\ m.receiver = a
               /\ m.language # DefaultLanguage
               /\ m.conversation_id = <<"APP", 0>>
               /\ r.in_reply_to = m.message_id
               /\ r.receiver = m.sender
               /\ r.conversation_id = m.conversation_id
               /\ r.language = m.language

\* The message r, logged at position k of the history of its sender, answers a
\* message that its sender had received before and that the other side had sent.
AnswersEarlierMessage(r, k) ==
    \E j \in 1..(k - 1) :
        LET m == agents[r.sender].message_history[j] IN
        /\ m.receiver = r.sender
        /\ m.message_id = r.in_reply_to
        /\ m.conversation_id = r.conversation_id
        /\ m.sender \in AgentIds
        /\ \E l \in DOMAIN agents[m.sender].message_history :
              agents[m.sender].message_history[l] = m

\* C11: every message in any agent's message_history that has a non-null
\* in_reply_to names the message_id of a message that was sent earlier and has the
\* same conversation_id.
C11_ReplyChain ==
    \A a \in AgentIds :
        \A i \in DOMAIN agents[a].message_history :
            LET r == agents[a].message_history[i] IN
            r.in_reply_to # None
            => /\ r.sender \in AgentIds
               /\ \E k \in DOMAIN agents[r.sender].message_history :
                     /\ agents[r.sender].message_history[k] = r
                     /\ AnswersEarlierMessage(r, k)

\* A reply to a reply is in a history: a chain of two in_reply_to references, built
\* at a later reading of the clock than the message it answers.
C11_Witness ==
    \E a \in AgentIds :
        \E i, j \in DOMAIN agents[a].message_history :
            LET r == agents[a].message_history[i]
                m == agents[a].message_history[j]
            IN /\ r.sender = a
               /\ r.in_reply_to = m.message_id
               /\ m.in_reply_to # None
               /\ m.timestamp < r.timestamp
               /\ AnswersEarlierMessage(r, i)

\* The positions of the history of a that hold messages a sent: one ACLMessage
\* object was constructed for each of them.
SentAt(a) ==
    { i \in DOMAIN agents[a].message_history : agents[a].message_history[i].sender = a }

\* C12: message_id is unique: any two distinct ACLMessage objects constructed during
\* a run have different message_id values, including two messages constructed by the
\* same sender with no advance of the clock between the two constructions.
C12_MessageIdUnique ==
    \A a \in AgentIds, b \in AgentIds :
        \A i \in SentAt(a), j \in SentAt(b) :
            (a # b \/ i # j)
            => agents[a].message_history[i].message_id
                 # agents[b].message_history[j].message_id

\* m was constructed without a conversation_id argument: the request of
\* dispatch_field_agents and the requests and queries of the application (the
\* replies and the reports of the field agent pass the id of their conversation).
StartsConversation(m) ==
    m.in_reply_to = None /\ m.performative \in {"request", "query-if"}

\* C13: two messages constructed without a supplied conversation_id always receive
\* different conversation_id values, so two independently started conversations
\* never share a conversation_id.
C13_ConversationIdUnique ==
    \A a \in AgentIds, b \in AgentIds :
        \A i \in SentAt(a), j \in SentAt(b) :
            LET m1 == agents[a].message_history[i]
                m2 == agents[b].message_history[j]
            IN ((a # b \/ i # j) /\ StartsConversation(m1) /\ StartsConversation(m2))
               => m1.conversation_id # m2.conversation_id

-----------------------------------------------------------------------------
(* Properties of plain CommunicatingAgents, checked under SpecBase *)

\* m fails validate: empty sender, empty receiver, missing performative, content
\* None, or a request whose content is no mapping containing "action".
FailsValidation(m) ==
    \/ m.sender = ""
    \/ m.receiver = ""
    \/ m.performative = ""
    \/ m.content.kind = "none"
    \/ m.performative = "request" /\ m.content.kind # "dict"
    \/ m.performative = "request" /\ m.content.kind = "dict" /\ m.content.action = ""

\* C14: send_message of a message that fails validate aborts the send: the message
\* is appended neither to the outbox nor to message_history (the agent, and every
\* other agent, is left as it was), and the call returns.
C14_InvalidSendAborts ==
    [][ (call' # NoCall /\ FailsValidation(call'[1].message))
        => /\ agents' = agents
           /\ phase' = phase ]_vars

\* A request whose content is a dict without "action" has just been handed to
\* send_message, and the outbox and the history of the agent hold nothing.
C14_Witness ==
    /\ call # NoCall
    /\ call[1].message.performative = "request"
    /\ call[1].message.content.kind = "dict"
    /\ call[1].message.content.action = ""
    /\ agents[call[1].agent].outbox = << >>
    /\ agents[call[1].agent].message_history = << >>

\* s is the end of t.
IsSuffix(s, t) ==
    Len(s) <= Len(t) /\ SubSeq(t, Len(t) - Len(s) + 1, Len(t)) = s

IsReceivedBy(a, m) == m.receiver = a

\* The messages receive_message appended for agent a, in the order of the calls
\* (as message_history logged them).
Received(a) ==
    LET ToMe(m) == IsReceivedBy(a, m) IN SelectSeq(agents[a].message_history, ToMe)

\* The messages popped so far by the process_messages call in progress (or the
\* last one).
Popped == [i \in DOMAIN handled |-> handled[i].message]

\* C15: process_messages handles inbox messages strictly in the order in which
\* receive_message appended them, whatever their performative or content,
\* including messages appended to the inbox while the drain is in progress: the
\* inbox is always the end of the sequence of received messages, and the messages
\* popped by the running drain followed by the inbox are the end of that sequence.
C15_FifoDrain ==
    /\ \A a \in AgentIds : IsSuffix(agents[a].inbox, Received(a))
    /\ phase.at \in {"messages", "events"}
       => IsSuffix(Popped \o agents[Updating].inbox, Received(Updating))

\* One drain has popped two different messages, the second of which (a confirm)
\* was appended to the inbox while the drain was in progress.
C15_Witness ==
    /\ phase.at = "messages"
    /\ Len(handled) >= 2
    /\ handled[1].message # handled[2].message
    /\ handled[1].message.performative \in {"request", "disconfirm"}
    /\ handled[2].message.performative = "confirm"
    /\ used.deliveries = 1

\* C16: a CommunicatingAgent with no handler override that processes a request
\* message always sends exactly one reply, with performative refuse, addressed to
\* the requester, whose conversation_id equals the request's conversation_id and
\* whose in_reply_to is the request's message_id.
C16_DefaultRequestRefused ==
    [][ (HandlesMessage /\ agents[Updating].class = "base"
           /\ Head(agents[Updating].inbox).performative = "request")
        => LET m == Head(agents[Updating].inbox)
               before == agents[Updating].outbox
               after == agents'[Updating].outbox
           IN /\ Len(after) = Len(before) + 1
              /\ SubSeq(after, 1, Len(before)) = before
              /\ after[Len(after)].performative = "refuse"
              /\ after[Len(after)].sender = Updating
              /\ after[Len(after)].receiver = m.sender
              /\ after[Len(after)].conversation_id = m.conversation_id
              /\ after[Len(after)].in_reply_to = m.message_id ]_vars

\* A plain agent has handled a request and its refuse reply has been routed back to
\* the requester.
C16_Witness ==
    \E a \in AgentIds :
        \E i, j \in DOMAIN agents[a].message_history :
            LET m == agents[a].message_history[i]
                r == agents[a].message_history[j]
            IN /\ agents[a].class = "base"
               /\ i < j
               /\ m.sender = a /\ m.performative = "request"
               /\ r.receiver = a /\ r.performative = "refuse"
               /\ r.in_reply_to = m.message_id
               /\ r.conversation_id = m.conversation_id
               /\ r.content.reason = <<"Action not supported">>

\* C17: a CommunicatingAgent with no handler override that processes an inform, a
\* confirm or a disconfirm message only writes trace entries: it appends nothing to
\* its outbox and changes neither current_state nor goals.
C17_DefaultsTraceOnly ==
    [][ (HandlesMessage /\ agents[Updating].class = "base"
           /\ Head(agents[Updating].inbox).performative
                 \in {"inform", "confirm", "disconfirm"})
        => /\ agents'[Updating].outbox = agents[Updating].outbox
           /\ agents'[Updating].current_state = agents[Updating].current_state
           /\ agents'[Updating].goals = agents[Updating].goals ]_vars

\* The messages waiting in the outboxes, each with every performative in place of
\* its own.
Outgoing ==
    UNION { { [agents[a].outbox[i] EXCEPT !.performative = p] :
                i \in DOMAIN agents[a].outbox, p \in Performatives } : a \in AgentIds }

\* C18: for every valid message of every performative, from_dict(to_dict(m)) yields
\* a message equal to m on every field: message_id, performative, sender, receiver,
\* content, language, ontology, protocol, conversation_id, reply_to, in_reply_to
\* and timestamp.
C18_DictRoundTrip ==
    \A m \in Outgoing :
        validate(m) = ""
        => LET back == from_dict(to_dict(m), clock) IN
           /\ back.message_id = m.message_id
           /\ back.performative = m.performative
           /\ back.sender = m.sender
           /\ back.receiver = m.receiver
           /\ back.content = m.content
           /\ back.language = m.language
           /\ back.ontology = m.ontology
           /\ back.protocol = m.protocol
           /\ back.conversation_id = m.conversation_id
           /\ back.reply_to = m.reply_to
           /\ back.in_reply_to = m.in_reply_to
           /\ back.timestamp = m.timestamp

\* A reply waits in an outbox at a later reading of the clock than the one it was
\* constructed at: the round trip constructs its message at another time.
C18_Witness ==
    \E m \in Outgoing :
        /\ validate(m) = ""
        /\ m.in_reply_to # None
        /\ m.performative = "refuse"
        /\ m.timestamp < clock
        /\ from_dict(to_dict(m), clock) = m

-----------------------------------------------------------------------------
(* Properties of the RescueAgent's update, checked under SpecRescue *)

\* The agent as update() found it.
AtCall == entered[1]

\* One call of _move_toward_target away from the target, and not there yet.
OneStepAway(ag) ==
    /\ ag.target_location # None
    /\ ag.current_location # ag.target_location
    /\ move_toward_target(ag).current_location = ag.target_location

\* C19: within one update() the simulation step comes before the events are
\* processed: when the first event is about to be popped the agent is the one
\* update() found, moved by its simulation step; and an update() that found the
\* agent in RESPONDING, one step away from its target, with an event queued,
\* ends with the agent in RESCUING at its target.
C19_SimulationBeforeEvents ==
    entered # None =>
        /\ pc = "drain" /\ reacts = << >> => fsm = rescue_simulation_step(AtCall)
        /\ /\ pc = "returned"
           /\ AtCall.current_state = "RESPONDING"
           /\ OneStepAway(AtCall)
           /\ AtCall.event_queue # << >>
           => /\ fsm.current_state = "RESCUING"
              /\ fsm.current_location = AtCall.target_location

C19_Witness ==
    /\ entered # None
    /\ pc = "returned"
    /\ AtCall.current_state = "RESPONDING"
    /\ OneStepAway(AtCall)
    /\ AtCall.event_queue # << >>
    /\ fsm.current_state = "RESCUING"
    /\ Len(reacts) >= 1
    /\ reacts[1].from = "RESPONDING"

-----------------------------------------------------------------------------
(* Properties of route_messages, checked under SpecBase *)

\* The step is a call of route_messages.
IsRouting == used'.ticks = used.ticks + 1

\* The messages of the outbox of the agents from position i on that name a as
\* their receiver, sender by sender in list order, each sender's in send order.
RECURSIVE AddressedFrom(_, _)
AddressedFrom(a, i) ==
    IF i > Len(AgentOrder) THEN << >>
    ELSE LET ToA(m) == m.receiver = a
         IN SelectSeq(agents[AgentOrder[i]].outbox, ToA) \o AddressedFrom(a, i + 1)

\* A message of some inbox or outbox names a receiver that is no agent.
Undelivered(ags) ==
    \E a \in AgentIds :
        \/ \E k \in DOMAIN ags[a].inbox : ags[a].inbox[k].receiver \notin AgentIds
        \/ \E k \in DOMAIN ags[a].outbox : ags[a].outbox[k].receiver \notin AgentIds

\* C20: route_messages leaves every outbox empty; every inbox is what it was,
\* followed by the drained messages that name its agent as receiver, once each and
\* each sender's in the order they were sent; a drained message whose receiver is
\* no agent is afterwards in no inbox and in no outbox.
C20_RouteMessages ==
    [][IsRouting =>
        /\ \A a \in AgentIds :
            /\ agents'[a].outbox = << >>
            /\ agents'[a].inbox = agents[a].inbox \o AddressedFrom(a, 1)
        /\ ~Undelivered(agents')]_vars

\* route_messages has just returned: FIELD-001 received the inform COORD-001 sent
\* after a message to nobody, which is in COORD-001's history and nowhere else.
C20_Witness ==
    /\ phase.at = "update" /\ phase.i = 1
    /\ \A a \in AgentIds : agents[a].outbox = << >>
    /\ Len(agents[CoordinatorId].message_history) = 2
    /\ agents[CoordinatorId].message_history[1].receiver \notin AgentIds
    /\ agents[CoordinatorId].message_history[2].receiver = "FIELD-001"
    /\ agents["FIELD-001"].inbox = << agents[CoordinatorId].message_history[2] >>
    /\ agents[CoordinatorId].inbox = << >>

\* route_messages has just returned: an inbox holds two different messages of one
\* sender, in the order of the sender's history.
C20_OrderReached ==
    /\ phase.at = "update" /\ phase.i = 1
    /\ Len(agents["FIELD-001"].inbox) = 2
    /\ agents["FIELD-001"].inbox[1] # agents["FIELD-001"].inbox[2]
    /\ agents["FIELD-001"].inbox = agents[CoordinatorId].message_history

-----------------------------------------------------------------------------
(* Properties of two agents updated one after the other, checked under SpecPair *)

\* The states the random module can be in: what its next two calls return.
RngStates == { <<d1, d2>> : d1 \in Findings, d2 \in Findings }

\* a.update() followed by b.update(), from the agents as they are.
UpdatedInOrder(a, b, rng) ==
    UpdateIn(UpdateIn([agents |-> agents, rng |-> rng], a, clock), b, clock)

\* C21: update() of one agent reads and writes that agent's state only, so the
\* updates of two distinct agents commute: from every state, A.update() followed
\* by B.update() leaves the same global state as B.update() followed by A.update().
C21_UpdatesCommute ==
    \A a \in PairIds, b \in PairIds, rng \in RngStates :
        a # b => UpdatedInOrder(a, b, rng) = UpdatedInOrder(b, a, rng)

-----------------------------------------------------------------------------
(* Properties of the goal objects, checked under SpecGoal *)

Terminal == {"completed", "failed"}

\* C22: complete() and fail() go through whatever the status of the goal: right
\* after either call the goal has the status the call names and completed_at is
\* the time of that call, also when the goal was completed or failed before (the
\* earlier status and time are overwritten); nothing else of the goal changes.
C22_CompleteFailOverwrite ==
    call # NoCall =>
        LET c == call[1]
            goal == fsm.goals[c.goal]
        IN /\ goal.status = (IF c.op = "complete" THEN "completed" ELSE "failed")
           /\ goal.completed_at = <<clock>>
           /\ goal.goal_id = c.before.goal_id
           /\ goal.created_at = c.before.created_at

\* fail() at time 1 on a goal that complete() had completed at time 0.
C22_Witness ==
    /\ call # NoCall
    /\ call[1].before.status \in Terminal
    /\ call[1].before.completed_at = <<0>>
    /\ call[1].before.status = "completed"
    /\ call[1].op = "fail"
    /\ fsm.goals[call[1].goal].status = "failed"
    /\ fsm.goals[call[1].goal].completed_at = <<1>>

-----------------------------------------------------------------------------
(* Properties of a RescueAgent's goals, mission and histories, checked under
   SpecRescue *)

\* The step is an iteration of process_events in which a rule with an action fired.
ActionRan ==
    /\ pc = "drain"
    /\ Len(reacts') = Len(reacts) + 1
    /\ reacts'[Len(reacts')].fired # 0
    /\ transitions[reacts'[Len(reacts')].fired].action # "none"

Statuses(ag) == [i \in DOMAIN ag.goals |-> ag.goals[i].status]

Fired(i) ==
    /\ pc = "drain"
    /\ Len(reacts') = Len(reacts) + 1
    /\ reacts'[Len(reacts')].fired = i

\* The position of the rule COMPLETED -> IDLE in the table.
ResetRule ==
    CHOOSE i \in DOMAIN RescueTransitions :
        /\ RescueTransitions[i].from_state = "COMPLETED"
        /\ RescueTransitions[i].to_state = "IDLE"

\* C24: the reset transition COMPLETED -> IDLE sets current_mission and
\* target_location to None and leaves agent_id, name, the goals with their
\* statuses, the registered transitions, current_location and rescued_count as
\* they were.
C24_ResetFrame ==
    [][Fired(ResetRule) =>
        /\ fsm'.current_mission = None
        /\ fsm'.target_location = None
        /\ fsm'.agent_id = fsm.agent_id
        /\ fsm'.name = fsm.name
        /\ fsm'.goals = fsm.goals
        /\ transitions' = transitions
        /\ fsm'.current_location = fsm.current_location
        /\ fsm'.rescued_count = fsm.rescued_count]_vars

\* The reset has just fired after a mission that rescued somebody and completed
\* goals.
C24_Witness ==
    /\ reacts # << >>
    /\ reacts[Len(reacts)].fired = ResetRule
    /\ reacts[Len(reacts)].from = "COMPLETED"
    /\ fsm.current_state = "IDLE"
    /\ fsm.current_mission = None
    /\ fsm.target_location = None
    /\ fsm.rescued_count > 0
    /\ \E i \in DOMAIN fsm.goals : fsm.goals[i].status = "completed"

-----------------------------------------------------------------------------
(* Properties of the recorded histories, checked under SpecTrace *)

IsPrefix(s, t) == Len(s) <= Len(t) /\ SubSeq(t, 1, Len(s)) = s

\* C25: state_history and execution_trace are append-only: over every step of
\* the agent, the value before the step is a prefix of the value after it.
C25_HistoriesAppendOnly ==
    [][/\ IsPrefix(fsm.state_history, fsm'.state_history)
       /\ IsPrefix(fsm.execution_trace, fsm'.execution_trace)]_vars

\* A transition has just fired: both histories hold earlier entries and a new one.
C25_Witness ==
    /\ Len(fsm.state_history) >= 3
    /\ Len(fsm.execution_trace) >= 8
    /\ fsm.execution_trace[Len(fsm.execution_trace)] = "State transition"
    /\ fsm.execution_trace[1] = "Agent initialized"
    /\ fsm.state_history[1].reason = <<"initialized">>

-----------------------------------------------------------------------------
(* The order of action and state change, checked under Spec *)

\* C26: when a rule fires, its action runs before the state changes. An action
\* that raises leaves _react_to_event while current_state is still the rule's
\* from_state and before any history entry is appended; when the action has
\* returned (or the rule has none), current_state is the rule's to_state and one
\* entry for it is appended, on top of what the action did to the agent.
C26_ActionBeforeStateChange ==
    [][pc = "drain" /\ Len(reacts') = Len(reacts) + 1
            /\ reacts'[Len(reacts')].fired # 0 =>
        LET r == reacts'[Len(reacts')]
            t == transitions[r.fired]
            ran == kernel_action(t, fsm)
        IN /\ r.from = t.from_state
           /\ fsm.current_state = t.from_state
           /\ r.raised = (t.action = "raises")
           /\ IF r.raised
              THEN /\ fsm'.current_state = t.from_state
                   /\ fsm'.state_history = fsm.state_history
                   /\ pc' = "raised"
              ELSE /\ fsm'.current_state = t.to_state
                   /\ fsm'.state_history =
                        Append(fsm.state_history,
                               [state |-> t.to_state,
                                reason |-> <<t.from_state, r.event.event_type>>])
                   /\ fsm'.goals = ran.agent.goals]_vars

\* A rule that leads to another state fired and its action raised: the agent is
\* still in the state the event met, with the history it had.
C26_Witness ==
    /\ pc = "raised"
    /\ reacts # << >>
    /\ LET r == reacts[Len(reacts)] IN
        /\ r.fired # 0
        /\ r.raised
        /\ transitions[r.fired].to_state # r.from
        /\ fsm.current_state = r.from
        /\ fsm.state_history[Len(fsm.state_history)].state # transitions[r.fired].to_state

-----------------------------------------------------------------------------
(* The tick at which a message is handled, checked under SpecMsg *)

\* The step is the return of the update() of the agent being updated.
IsUpdateReturn == phase.at = "events" /\ phase'.at # "events"

\* C27: a message sent during an update of tick t is handled by its receiver in
\* tick t+1 and not within tick t. Outside route_messages no inbox gains a message
\* and no outbox loses one, so what an agent sends during its update stays in its
\* outbox for the rest of the tick, also when the receiver is updated later in the
\* same tick; the route_messages that opens the next tick moves it to the end of
\* the receiver's inbox; and every update() returns with the inbox handled to
\* the last message.
C27_HandledNextTick ==
    [][/\ ~IsRouting =>
            \A a \in AgentIds :
                /\ IsSuffix(agents'[a].inbox, agents[a].inbox)
                /\ IsPrefix(agents[a].outbox, agents'[a].outbox)
       /\ IsRouting =>
            \A a \in AgentIds :
                IsSuffix(AddressedFrom(a, 1), agents'[a].inbox)
       /\ IsUpdateReturn => agents[Updating].inbox = << >>]_vars

\* The second agent of the list is about to return from its update of a tick in
\* which it handled nothing, while a reply the first agent sent to it during this
\* tick waits in the first agent's outbox.
C27_Witness ==
    /\ phase.at = "events"
    /\ phase.i = 2
    /\ handled = << >>
    /\ agents[AgentOrder[2]].inbox = << >>
    /\ agents[AgentOrder[1]].outbox # << >>
    /\ agents[AgentOrder[1]].outbox[1].receiver = AgentOrder[2]
    /\ agents[AgentOrder[1]].outbox[1].in_reply_to # None

-----------------------------------------------------------------------------
(* Missions carried through by updates alone *)

\* The agent was handed a single event, a BUILDING_COLLAPSE with a location.
SingleCollapse ==
    /\ Len(arrivals) = 1
    /\ arrivals[1].event_type = "BUILDING_COLLAPSE"

\* The mission is over: back in IDLE with the victims counted.
MissionDone == fsm.current_state = "IDLE" /\ fsm.rescued_count > 0

\* A further update() changes the agent: there is an event to process or the
\* simulation step does something.
UpdateProgresses == fsm.event_queue # << >> \/ rescue_simulation_step(fsm) # fsm

\* C28: a RescueAgent handed a single BUILDING_COLLAPSE and then only updated
\* carries the mission through to IDLE with rescued_count increased. With no
\* further event the agent changes by update() alone, so until the mission is
\* over every update() that has returned must leave a state the next update()
\* changes.
C28_SingleEventMissionCompletes ==
    SingleCollapse /\ pc = "returned" /\ ~MissionDone => UpdateProgresses

\* The field agent has agreed to an investigation: it holds the mission and the
\* agree it sent is in its history.
HasAgreed(a) ==
    /\ agents[a].current_mission # None
    /\ \E k \in DOMAIN agents[a].message_history :
         /\ agents[a].message_history[k].performative = "agree"
         /\ agents[a].message_history[k].sender = a

\* C29: a FieldAgent that has agreed to an investigate_location request carries
\* the mission out under the ticks of the driver alone, with no event injected.
\* Its state changes only when process_events pops an event, so with no event
\* injected an agent that holds an agreed mission between two ticks must have
\* left IDLE or hold an event that can take it out of IDLE.
C29_AgreedMissionCarriedOut ==
    \A a \in AgentIds :
        /\ agents[a].class = "field"
        /\ used.events = 0
        /\ phase.at = "app"
        /\ HasAgreed(a)
        => agents[a].current_state # "IDLE" \/ agents[a].event_queue # << >>

-----------------------------------------------------------------------------
(* The active goals of a RescueAgent, checked under SpecRescue *)

ActiveGoals == { i \in DOMAIN fsm.goals : fsm.goals[i].status = "active" }

\* C30: in every reachable state of a RescueAgent at most one goal is active.
C30_AtMostOneActiveGoal == Cardinality(ActiveGoals) <= 1

-----------------------------------------------------------------------------
(* Properties of a FieldAgent's update and requests, checked under SpecField *)

\* m is an investigate_location request a field agent without a mission accepts.
Acceptable(m) ==
    /\ m.performative = "request"
    /\ m.content.kind = "dict"
    /\ m.content.action = "investigate_location"
    /\ m.content.parameters # "nondict"

\* ag is in IDLE without a mission, its inbox holds an acceptable request and its
\* queue holds one event.
InboxFirstCase(ag) ==
    /\ ag.current_state = "IDLE"
    /\ ag.current_mission = None
    /\ Len(ag.event_queue) = 1
    /\ \E k \in DOMAIN ag.inbox : Acceptable(ag.inbox[k])

\* The update() in progress has come to its end: both drains are over.
UpdateOver == phase.at = "events" /\ agents[Updating].event_queue = << >>

\* C31: update() drains the inbox before the event queue: a FieldAgent that was
\* in IDLE with an acceptable investigate_location request in its inbox and one
\* event in its queue when update() was called ends that update in TRAVELING,
\* holding the mission the request set.
C31_InboxBeforeQueue ==
    (entered # None /\ UpdateOver /\ InboxFirstCase(entered[1]))
    => /\ agents[FieldId].current_state = "TRAVELING"
       /\ agents[FieldId].current_mission # None

\* Such an update has come to its end: it handled the request, which was the one
\* message of the inbox, and the agent is in TRAVELING.
C31_Witness ==
    /\ entered # None
    /\ UpdateOver
    /\ InboxFirstCase(entered[1])
    /\ Len(handled) = 1
    /\ handled[1].message = entered[1].inbox[1]
    /\ agents[FieldId].current_state = "TRAVELING"
    /\ Len(agents[FieldId].state_history) = 2

\* C32: a FieldAgent answers every request it processes with exactly one reply,
\* an agree or a refuse, built by create_reply: addressed to the requester, with
\* the request's conversation_id and the request's message_id as in_reply_to.
C32_OneAgreeOrRefusePerRequest ==
    [][(HandlesMessage /\ agents[Updating].class = "field"
            /\ Head(agents[Updating].inbox).performative = "request")
        => LET m == Head(agents[Updating].inbox)
               before == agents[Updating].outbox
               after == agents'[Updating].outbox
           IN /\ Len(after) = Len(before) + 1
              /\ SubSeq(after, 1, Len(before)) = before
              /\ after[Len(after)].performative \in {"agree", "refuse"}
              /\ after[Len(after)] =
                    create_reply(m, after[Len(after)].performative,
                                 after[Len(after)].content, Updating, clock)]_vars

\* C33: an investigate_location request processed while the agent holds a mission
\* is answered with one refuse, a reply to the request, and leaves
\* current_mission, target_location and coordinator_id as they were.
C33_OneMissionAtATime ==
    [][(HandlesMessage /\ agents[Updating].class = "field"
            /\ Head(agents[Updating].inbox).performative = "request"
            /\ Head(agents[Updating].inbox).content.kind = "dict"
            /\ Head(agents[Updating].inbox).content.action = "investigate_location"
            /\ agents[Updating].current_mission # None)
        => LET m == Head(agents[Updating].inbox)
               before == agents[Updating].outbox
               after == agents'[Updating].outbox
           IN /\ Len(after) = Len(before) + 1
              /\ SubSeq(after, 1, Len(before)) = before
              /\ after[Len(after)] =
                    create_reply(m, "refuse", after[Len(after)].content, Updating, clock)
              /\ agents'[Updating].current_mission = agents[Updating].current_mission
              /\ agents'[Updating].target_location = agents[Updating].target_location
              /\ agents'[Updating].coordinator_id = agents[Updating].coordinator_id]_vars

\* The agent, on a mission to one place, has just refused a well-formed request to
\* investigate another place, and is still on its mission to the first.
C33_Witness ==
    /\ phase.at = "messages"
    /\ handled # << >>
    /\ Acceptable(handled[Len(handled)].message)
    /\ agents[FieldId].current_mission # None
    /\ agents[FieldId].current_mission[1].location
         # handled[Len(handled)].message.content.location
    /\ agents[FieldId].target_location = agents[FieldId].current_mission[1].location
    /\ agents[FieldId].outbox # << >>
    /\ LET r == agents[FieldId].outbox[Len(agents[FieldId].outbox)] IN
         /\ r.performative = "refuse"
         /\ r.in_reply_to = handled[Len(handled)].message.message_id
         /\ r.content.reason = <<"Already on active mission">>

-----------------------------------------------------------------------------
(* Properties of the coordinator, checked under SpecCoord *)

\* The coordinator as it is.
Coordinator == agents[CoordinatorId]

\* The messages the dispatch_field_agents call just made has sent.
Dispatched ==
    SubSeq(Coordinator.outbox, Len(call[1].before.outbox) + 1, Len(Coordinator.outbox))

\* The field agents those messages are addressed to.
DispatchedTo == { Dispatched[k].receiver : k \in DOMAIN Dispatched }

\* C34: one call of dispatch_field_agents sends at most required_agents messages,
\* each a request to a registered field agent of its own; none goes to an agent
\* that had an entry in active_missions; active_missions gains an entry for
\* exactly the agents a request was sent to and keeps the entries it had; and the
\* state afterwards is MONITORING if a request was sent and COORDINATING if none.
C34_DispatchFieldAgents ==
    call # NoCall =>
        LET before == call[1].before
            tracked == DOMAIN before.active_missions
        IN /\ IsPrefix(before.outbox, Coordinator.outbox)
           /\ Len(Dispatched) <= call[1].details.required_agents
           /\ Cardinality(DispatchedTo) = Len(Dispatched)
           /\ \A k \in DOMAIN Dispatched :
                /\ Dispatched[k].performative = "request"
                /\ Dispatched[k].sender = CoordinatorId
                /\ \E i \in DOMAIN before.field_agents :
                      before.field_agents[i] = Dispatched[k].receiver
           /\ DispatchedTo \cap tracked = {}
           /\ DOMAIN Coordinator.active_missions = tracked \cup DispatchedTo
           /\ \A a \in tracked : Coordinator.active_missions[a] = before.active_missions[a]
           /\ Coordinator.current_state =
                (IF Dispatched # << >> THEN "MONITORING" ELSE "COORDINATING")

\* A call that asked for two agents has returned: FIELD-001 had a mission, so the
\* one request went to FIELD-002, and both are tracked.
C34_Witness ==
    /\ call # NoCall
    /\ call[1].details.required_agents = 2
    /\ DOMAIN call[1].before.active_missions = {"FIELD-001"}
    /\ Len(Dispatched) = 1
    /\ Dispatched[1].receiver = "FIELD-002"
    /\ DOMAIN Coordinator.active_missions = {"FIELD-001", "FIELD-002"}
    /\ Coordinator.current_state = "MONITORING"

\* A call has returned that found every field agent on a mission: nothing was
\* sent and the coordinator is in COORDINATING.
C34_NoneDispatched ==
    /\ call # NoCall
    /\ DOMAIN call[1].before.active_missions = PairIds
    /\ Dispatched = << >>
    /\ Coordinator.current_state = "COORDINATING"

\* C35: whenever the coordinator is in MONITORING, active_missions is not empty.
C35_MonitoringHasMissions ==
    Coordinator.current_state = "MONITORING" => DOMAIN Coordinator.active_missions # {}

\* C37: the state of the last entry of the coordinator's state history is its
\* current state.
C37_CoordinatorHistoryCurrent ==
    Coordinator.state_history[Len(Coordinator.state_history)].state
        = Coordinator.current_state

-----------------------------------------------------------------------------
(* The state history of an agent driven by the kernel, checked under Spec *)

\* The step is an iteration of process_events in which a rule fired and its
\* action, if it has one, returned.
TransitionFired ==
    /\ pc = "drain"
    /\ Len(reacts') = Len(reacts) + 1
    /\ reacts'[Len(reacts')].fired # 0
    /\ ~reacts'[Len(reacts')].raised

\* The state of the last entry of the agent's state history.
LastRecorded(ag) == ag.state_history[Len(ag.state_history)].state

\* C36: for an agent whose state changes through the kernel only, the state of the
\* last history entry is the current state, and the history holds one entry for
\* the initial state and one per transition fired: before and after every step
\* the last entry names the current state, and the history grows, by one entry at
\* its end, exactly in the steps in which a transition fires.
C36_HistoryTracksState ==
    [][/\ LastRecorded(fsm) = fsm.current_state
       /\ LastRecorded(fsm') = fsm'.current_state
       /\ IsPrefix(fsm.state_history, fsm'.state_history)
       /\ Len(fsm'.state_history) =
            Len(fsm.state_history) + (IF TransitionFired THEN 1 ELSE 0)]_vars

\* One call of process_events has returned in which two transitions fired and one
\* event fired nothing: the history has three entries and ends with the state the
\* agent is in.
C36_Witness ==
    /\ pc = "returned"
    /\ Len(reacts) = 3
    /\ Cardinality({ k \in DOMAIN reacts : reacts[k].fired # 0 /\ ~reacts[k].raised }) = 2
    /\ Len(fsm.state_history) = 3
    /\ fsm.current_state = "COMPLETED"
    /\ LastRecorded(fsm) = "COMPLETED"

-----------------------------------------------------------------------------
(* C39: medical supplies *)

\* C39: a MedicalAgent's medical_supplies stays within 0 to 100.
C39_SuppliesInRange == fsm.medical_supplies \in 0..100

-----------------------------------------------------------------------------
(* C38: idle and mission *)

\* The types of event that start a mission of a RescueAgent or a MedicalAgent.
EmergencyTypes ==
    {"BUILDING_COLLAPSE", "MAJOR_EARTHQUAKE", "FIRE_DETECTED", "MEDICAL_EMERGENCY"}

\* The agent ag is in IDLE exactly if it has no mission.
IdleIffNoMission(ag) == (ag.current_state = "IDLE") <=> (ag.current_mission = None)

\* This step pops an event that finds the agent outside IDLE.
PoppedWhileBusy ==
    /\ pc = "drain"
    /\ Len(reacts') = Len(reacts) + 1
    /\ fsm.current_state # "IDLE"

\* C38: a RescueAgent or MedicalAgent is in IDLE if and only if current_mission
\* is none; so an event popped while the agent is not IDLE fires no rule other
\* than one whose action finds a mission, and leaves current_mission and
\* target_location as they were or, on the reset, none.
C38_IdleIffNoMission ==
    [][/\ IdleIffNoMission(fsm)
       /\ IdleIffNoMission(fsm')
       /\ PoppedWhileBusy =>
            /\ fsm.current_mission # None
            /\ reacts'[Len(reacts')].fired # 1
            /\ ~reacts'[Len(reacts')].raised
            /\ fsm'.current_mission \in {fsm.current_mission, None}
            /\ fsm'.target_location \in {fsm.target_location, None}]_vars

\* An emergency at another place was popped while the agent was on a mission,
\* fired nothing, and the agent is still on the mission it had.
C38_Witness ==
    /\ fsm.current_state \notin {"IDLE", "COMPLETED"}
    /\ fsm.current_mission # None
    /\ reacts # << >>
    /\ LET r == reacts[Len(reacts)] IN
         /\ r.event.event_type \in EmergencyTypes
         /\ r.from # "IDLE"
         /\ r.fired = 0
         /\ r.event.location # fsm.current_mission[1].location
         /\ fsm.target_location = fsm.current_mission[1].location

-----------------------------------------------------------------------------
(* C40: the drains *)

\* The inbox and the event queue of the agent whose update() is running.
DrainedInbox(ags) == ags[AgentOrder[phase.i]].inbox

DrainedQueue(ags) == ags[AgentOrder[phase.i]].event_queue

\* Every iteration of process_messages takes exactly the first message out of
\* the inbox, and the loop is left only with the inbox empty; the same for
\* process_events and the event queue.
DrainsShrink ==
    /\ (phase.at = "messages" /\ agents' # agents) =>
          /\ DrainedInbox(agents) # << >>
          /\ DrainedInbox(agents') = Tail(DrainedInbox(agents))
    /\ (phase.at = "messages" /\ phase' # phase) =>
          /\ phase' = [phase EXCEPT !.at = "events"]
          /\ DrainedInbox(agents') = << >>
    /\ (phase.at = "events" /\ agents' # agents) =>
          /\ DrainedQueue(agents) # << >>
          /\ DrainedQueue(agents') = Tail(DrainedQueue(agents))
    /\ (phase.at = "events" /\ phase' # phase) =>
          /\ phase'.at \in {"update", "app"}
          /\ DrainedQueue(agents') = << >>

\* C40: both drains terminate and empty their queue: process_messages, once
\* entered, returns, with the inbox empty, and process_events, once entered,
\* returns, with the event queue empty; no handler appends to the agent's own
\* inbox and no transition action enqueues an event.
C40_DrainsTerminateEmpty ==
    /\ [][DrainsShrink]_vars
    /\ (phase.at = "messages") ~> (phase.at = "events")
    /\ (phase.at = "events") ~> (phase.at \in {"update", "app"})

\* An update of the field agent that has drained both: it handled two messages,
\* the mission of the first is the agent's, and the event that handling queued
\* was popped and took the agent to TRAVELING.
C40_Witness ==
    /\ phase.at = "events"
    /\ AgentOrder[phase.i] = FieldId
    /\ Len(handled) >= 2
    /\ Acceptable(handled[1].message)
    /\ DrainedInbox(agents) = << >>
    /\ DrainedQueue(agents) = << >>
    /\ agents[AgentOrder[phase.i]].current_state = "TRAVELING"
    /\ Len(agents[AgentOrder[phase.i]].state_history) = 2


====
